---- MODULE Spec2Model ----
(***************************************************************************)
(* Hitori engine: the play-state model (HitoriState.ts), the rule checks   *)
(* (HitoriRules.ts), the undo/redo history (UndoRedo.ts) and the puzzle    *)
(* generator (HitoriPuzzleGenerator.ts).                                   *)
(*                                                                         *)
(* Rows and columns are 0-based as in the source; TLA+ sequences are       *)
(* 1-based, so cells[r][c] of the source is cells[r + 1][c + 1] here.      *)
(*                                                                         *)
(* Three specifications share the module:                                  *)
(*   Spec       play states as objects on a heap, held in an undo history  *)
(*   SpecRules  the rule checks re-run after every change of a board       *)
(*   SpecGen    one run of generateHitoriPuzzleWithSolution                *)
(***************************************************************************)
EXTENDS Integers, Sequences, FiniteSets, TLC

VARIABLES
  heap,      \* [rows, cells]: the row arrays and cell objects allocated so far
  history,   \* HistoryState<HitoriGameState>: [past, present, future]
  ghost,     \* per position of the history: how the state was made, and its value then
  thrown,    \* the error the last call threw, or "none"
  board,     \* SpecRules: the grid (a value) the rule checks are run on
  report,    \* SpecRules: what checkAllRules returned for board
  gen        \* SpecGen: the locals of one generator run

vars == <<heap, history, ghost, thrown, board, report, gen>>

\* ---------------------------------------------------------------- bounds

\* Longest chain past ++ <<present>> ++ future the history may hold.
MaxStates == 3
\* Largest grid size of the parametric layouts the rule checks are run on.
MaxSize == 2
\* Largest modulus (number of distinct values) of the parametric layouts.
MaxVal == 2
\* Largest size handed to the generator.
MaxGenSize == 3
\* The sizes below the smallest valid one (2) handed to the generator:
\* 2 - 1 down to 2 - MaxShortfall.
MaxShortfall == 3
\* Largest number of hints the play scene applies between two resets.
MaxHints == 2
\* Largest number of marked cells on a board of SpecHintsWide.
MaxMarked == 2
\* Largest number of hints followed in a row in SpecChase.
MaxChase == 3

\* ------------------------------------------------------------- CellState

Unmarked == "unmarked"
Shaded == "shaded"
Kept == "kept"
CellStates == {Unmarked, Shaded, Kept}

\* ------------------------------------------------------------ sequences

Idx(s) == 1..Len(s)

RECURSIVE ConcatAll(_)
ConcatAll(ss) == IF ss = <<>> THEN <<>> ELSE Head(ss) \o ConcatAll(Tail(ss))

\* ------------------------------------------------- grids as plain values

\* Variant: only the first row's length is compared with the size.
createGridFromNumbersThrowsFirstRow(numbers) ==
  \/ Len(numbers) = 0
  \/ Len(numbers[1]) # Len(numbers)

\* createGridFromNumbers: size = numbers.length; throws when size is 0 or a
\* row's length differs from size; every cell Unmarked with its position.
createGridFromNumbersThrows(numbers) ==
  \/ Len(numbers) = 0
  \/ \E r \in Idx(numbers) : Len(numbers[r]) # Len(numbers)

\* Variant: the value is read at the transposed place.
createGridFromNumbersTransposed(numbers) ==
  [size  |-> Len(numbers),
   cells |-> [r \in Idx(numbers) |-> [c \in Idx(numbers[r]) |->
               [row |-> r - 1, col |-> c - 1,
                value |-> numbers[c][r], state |-> Unmarked]]]]

createGridFromNumbers(numbers) ==
  [size  |-> Len(numbers),
   cells |-> [r \in Idx(numbers) |-> [c \in Idx(numbers[r]) |->
               [row |-> r - 1, col |-> c - 1,
                value |-> numbers[r][c], state |-> Unmarked]]]]

inBounds(grid, row, col) ==
  row >= 0 /\ row < grid.size /\ col >= 0 /\ col < grid.size

\* grid.cells[row][col] of the source.
CellAt(grid, row, col) == grid.cells[row + 1][col + 1]

Pos(row, col) == [row |-> row, col |-> col]

\* ------------------------------------------------------ HitoriRules.ts

\* bucket: the Map<number, CellPosition[]> of one line, as the sequence of
\* its entries in insertion order.  bucket.get(value) ?? [], push, set.
BucketPush(bucket, value, pos) ==
  IF \E i \in Idx(bucket) : bucket[i].value = value
  THEN [i \in Idx(bucket) |->
          IF bucket[i].value = value
          THEN [bucket[i] EXCEPT !.cells = Append(@, pos)]
          ELSE bucket[i]]
  ELSE Append(bucket, [value |-> value, cells |-> <<pos>>])

\* Variant: the row buckets hold Unmarked cells only (Kept cells are skipped
\* like Shaded ones).
RECURSIVE RowBucketUnmarkedOnly(_, _, _, _)
RowBucketUnmarkedOnly(grid, r, c, bucket) ==
  IF c >= grid.size THEN bucket
  ELSE IF CellAt(grid, r, c).state # Unmarked
  THEN RowBucketUnmarkedOnly(grid, r, c + 1, bucket)
  ELSE RowBucketUnmarkedOnly(grid, r, c + 1,
                             BucketPush(bucket, CellAt(grid, r, c).value, Pos(r, c)))

\* The inner loop over the columns of row r: Shaded cells are skipped.
RECURSIVE RowBucket(_, _, _, _)
RowBucket(grid, r, c, bucket) ==
  IF c >= grid.size THEN bucket
  ELSE IF CellAt(grid, r, c).state = Shaded THEN RowBucket(grid, r, c + 1, bucket)
  ELSE RowBucket(grid, r, c + 1,
                 BucketPush(bucket, CellAt(grid, r, c).value, Pos(r, c)))

\* The inner loop over the rows of column c.
RECURSIVE ColBucket(_, _, _, _)
ColBucket(grid, c, r, bucket) ==
  IF r >= grid.size THEN bucket
  ELSE IF CellAt(grid, r, c).state = Shaded THEN ColBucket(grid, c, r + 1, bucket)
  ELSE ColBucket(grid, c, r + 1,
                 BucketPush(bucket, CellAt(grid, r, c).value, Pos(r, c)))

\* Variant: positions.length > 2 where the code has > 1.
BucketViolationsOverTwo(kind, index, bucket) ==
  LET dup == SelectSeq(bucket, LAMBDA e : Len(e.cells) > 2)
  IN  [k \in Idx(dup) |->
        [kind |-> kind, index |-> index, value |-> dup[k].value, cells |-> dup[k].cells]]

\* for (const [value, positions] of bucket.entries()): one violation for
\* each entry with more than one position.
BucketViolations(kind, index, bucket) ==
  LET dup == SelectSeq(bucket, LAMBDA e : Len(e.cells) > 1)
  IN  [k \in Idx(dup) |->
        [kind |-> kind, index |-> index, value |-> dup[k].value, cells |-> dup[k].cells]]

checkRowColumnUniqueness(grid) ==
  LET rows == ConcatAll([r \in 1..grid.size |->
                 BucketViolations("row-duplicate", r - 1,
                                  RowBucket(grid, r - 1, 0, <<>>))])
      cols == ConcatAll([c \in 1..grid.size |->
                 BucketViolations("column-duplicate", c - 1,
                                  ColBucket(grid, c - 1, 0, <<>>))])
      violations == rows \o cols
  IN  [ok |-> Len(violations) = 0, violations |-> violations]

\* dirs of checkNoAdjacentShaded and checkConnectivityOfUnshaded.
RuleDirs == << <<1, 0>>, <<-1, 0>>, <<0, 1>>, <<0, -1>> >>

\* Variant: the pair key is not sorted.
PairKeyUnsorted(r, c, nr, nc) == <<r, c, nr, nc>>

\* The sorted pair key of checkNoAdjacentShaded.
PairKey(r, c, nr, nc) ==
  IF r < nr \/ (r = nr /\ c <= nc) THEN <<r, c, nr, nc>> ELSE <<nr, nc, r, c>>

\* The nested loops over r, c and dirs, flattened: visit k is cell
\* (k \div 4) in row-major order with direction (k % 4) + 1.
RECURSIVE AdjScan(_, _, _, _)
AdjScan(grid, k, seenPairs, violations) ==
  IF k >= 4 * grid.size * grid.size THEN violations
  ELSE LET r == (k \div 4) \div grid.size
           c == (k \div 4) % grid.size
           nr == r + RuleDirs[(k % 4) + 1][1]
           nc == c + RuleDirs[(k % 4) + 1][2]
       IN  IF /\ CellAt(grid, r, c).state = Shaded
              /\ inBounds(grid, nr, nc)
              /\ CellAt(grid, nr, nc).state = Shaded
              /\ PairKey(r, c, nr, nc) \notin seenPairs
           THEN AdjScan(grid, k + 1, seenPairs \cup {PairKey(r, c, nr, nc)},
                        Append(violations,
                               [kind  |-> "adjacent-shaded",
                                cells |-> <<Pos(r, c), Pos(nr, nc)>>]))
           ELSE AdjScan(grid, k + 1, seenPairs, violations)

checkNoAdjacentShaded(grid) ==
  LET violations == AdjScan(grid, 0, {}, <<>>)
  IN  [ok |-> Len(violations) = 0, violations |-> violations]

\* The unshaded list of checkConnectivityOfUnshaded: the nested loops over
\* r and c, flattened (cell k in row-major order).
RECURSIVE UnshadedFrom(_, _, _)
UnshadedFrom(grid, k, unshaded) ==
  IF k >= grid.size * grid.size THEN unshaded
  ELSE IF CellAt(grid, k \div grid.size, k % grid.size).state # Shaded
  THEN UnshadedFrom(grid, k + 1, Append(unshaded, Pos(k \div grid.size, k % grid.size)))
  ELSE UnshadedFrom(grid, k + 1, unshaded)

\* Variant: only Unmarked cells are collected (Kept taken for shaded).
UnshadedListUnmarkedOnly(grid) ==
  SelectSeq(UnshadedFrom(grid, 0, <<>>),
            LAMBDA p : CellAt(grid, p.row, p.col).state = Unmarked)

UnshadedList(grid) == UnshadedFrom(grid, 0, <<>>)

\* One pass of the inner for loop: the neighbours of current in dirs order.
RECURSIVE BfsDirs(_, _, _, _, _)
BfsDirs(grid, current, d, queue, visited) ==
  IF d > 4 THEN [queue |-> queue, visited |-> visited]
  ELSE LET nr == current.row + RuleDirs[d][1]
           nc == current.col + RuleDirs[d][2]
       IN  IF /\ inBounds(grid, nr, nc)
              /\ CellAt(grid, nr, nc).state # Shaded
              /\ Pos(nr, nc) \notin visited
           THEN BfsDirs(grid, current, d + 1, Append(queue, Pos(nr, nc)),
                        visited \cup {Pos(nr, nc)})
           ELSE BfsDirs(grid, current, d + 1, queue, visited)

\* The while loop: queue.shift(), then the neighbours.
RECURSIVE Bfs(_, _, _)
Bfs(grid, queue, visited) ==
  IF queue = <<>> THEN visited
  ELSE LET step == BfsDirs(grid, Head(queue), 1, Tail(queue), visited)
       IN  Bfs(grid, step.queue, step.visited)

checkConnectivityOfUnshaded(grid) ==
  LET unshaded == UnshadedList(grid)
  IN  IF Len(unshaded) <= 1 THEN [ok |-> TRUE, violations |-> <<>>]
      ELSE LET visited == Bfs(grid, <<unshaded[1]>>, {unshaded[1]})
           IN  IF Cardinality(visited) = Len(unshaded)
               THEN [ok |-> TRUE, violations |-> <<>>]
               ELSE [ok |-> FALSE,
                     violations |->
                       << [kind  |-> "connectivity",
                           cells |-> SelectSeq(unshaded, LAMBDA p : p \notin visited)] >>]

\* Variant: isSolved leaves connectivity out.
checkAllRulesWithoutConnectivity(grid) ==
  LET rowColumnUniqueness == checkRowColumnUniqueness(grid)
      noAdjacentShaded == checkNoAdjacentShaded(grid)
      connectivity == checkConnectivityOfUnshaded(grid)
  IN  [isSolved |-> rowColumnUniqueness.ok /\ noAdjacentShaded.ok,
       rowColumnUniqueness |-> rowColumnUniqueness,
       noAdjacentShaded |-> noAdjacentShaded,
       connectivity |-> connectivity]

checkAllRules(grid) ==
  LET rowColumnUniqueness == checkRowColumnUniqueness(grid)
      noAdjacentShaded == checkNoAdjacentShaded(grid)
      connectivity == checkConnectivityOfUnshaded(grid)
  IN  [isSolved |-> rowColumnUniqueness.ok /\ noAdjacentShaded.ok /\ connectivity.ok,
       rowColumnUniqueness |-> rowColumnUniqueness,
       noAdjacentShaded |-> noAdjacentShaded,
       connectivity |-> connectivity]

\* ------------------------------------------------------ HitoriState.ts
\* Play states are objects: a state's grid.cells is an array of references
\* to row arrays, and a row array holds references to cell objects.  A
\* reference names the generation that allocated the object (the position
\* in the history of the state it was made for) and its place in the grid.

RowRef(g, r) == <<g, r>>
CellRef(g, r, c) == <<g, r, c>>

NoHeap == [rows |-> <<>>, cells |-> <<>>]

\* The objects of old, and those of new (which win where both name one).
Merge(old, new) ==
  [rows  |-> [ref \in DOMAIN old.rows \cup DOMAIN new.rows |->
                IF ref \in DOMAIN new.rows THEN new.rows[ref] ELSE old.rows[ref]],
   cells |-> [ref \in DOMAIN old.cells \cup DOMAIN new.cells |->
                IF ref \in DOMAIN new.cells THEN new.cells[ref] ELSE old.cells[ref]]]

\* Objects of generations above g are unreachable once the history drops
\* the states behind them: the garbage collector frees them.
Collect(H, g) ==
  [rows  |-> [ref \in {x \in DOMAIN H.rows : x[1] <= g} |-> H.rows[ref]],
   cells |-> [ref \in {x \in DOMAIN H.cells : x[1] <= g} |-> H.cells[ref]]]

\* A matrix of cell records allocated as fresh row arrays and cell objects
\* of generation g: the array literal of rows, and the objects.
AllocCells(g, cells) ==
  [refs  |-> [r \in Idx(cells) |-> RowRef(g, r)],
   rows  |-> [ref \in {RowRef(g, r) : r \in Idx(cells)} |->
                [c \in Idx(cells[ref[2]]) |-> CellRef(g, ref[2], c)]],
   cells |-> [ref \in UNION {{CellRef(g, r, c) : c \in Idx(cells[r])} : r \in Idx(cells)} |->
                cells[ref[2]][ref[3]]]]

\* The cell objects a state's grid reaches, as a matrix of records.
CellsOf(H, state) ==
  [r \in Idx(state.grid.cells) |->
     [c \in Idx(H.rows[state.grid.cells[r]]) |->
        H.cells[H.rows[state.grid.cells[r]][c]]]]

\* The grid of a state as a plain value, as the rule checks read it.
GridOf(H, state) == [size |-> state.grid.size, cells |-> CellsOf(H, state)]

\* Everything observable of a play state.
ValueOf(H, state) ==
  [puzzle    |-> state.puzzle,
   grid      |-> GridOf(H, state),
   moves     |-> state.moves,
   startTime |-> state.startTime,
   elapsedMs |-> state.elapsedMs]

\* startTime is number | null: null is the empty tuple, a time a 1-tuple.
Null == <<>>
At(t) == <<t>>

\* What a call returns: the error it threw or "none", the returned state,
\* and the objects it allocated (or wrote).
Threw(error) == [thrown |-> error, state |-> <<>>, rows |-> <<>>, cells |-> <<>>]

createInitialState(puzzle, g) ==
  IF createGridFromNumbersThrows(puzzle.numbers) THEN Threw("MalformedLayout")
  ELSE LET grid == createGridFromNumbers(puzzle.numbers)
           a == AllocCells(g, grid.cells)
       IN  [thrown |-> "none",
            state  |-> [puzzle    |-> puzzle,
                        grid      |-> [size |-> grid.size, cells |-> a.refs],
                        moves     |-> 0,
                        startTime |-> Null,
                        elapsedMs |-> 0],
            rows   |-> a.rows,
            cells  |-> a.cells]

getCellThrows(state, row, col) == ~inBounds(state.grid, row, col)

\* The reference state.grid.cells[row][col] holds, and the object behind it.
getCellRef(H, state, row, col) == H.rows[state.grid.cells[row + 1]][col + 1]
getCell(H, state, row, col) == H.cells[getCellRef(H, state, row, col)]

\* Variant: the changed branch forgets moves + 1.
setCellStateKeepsMoves(H, state, row, col, newState, g) ==
  IF getCellThrows(state, row, col) THEN Threw("OutOfBounds")
  ELSE LET current == getCell(H, state, row, col)
       IN  IF current.state = newState
           THEN LET a == AllocCells(g, CellsOf(H, state))
                IN  [thrown |-> "none",
                     state  |-> [state EXCEPT !.grid = [state.grid EXCEPT !.cells = a.refs]],
                     rows   |-> a.rows,
                     cells  |-> a.cells]
           ELSE LET newRowRef == RowRef(g, row + 1)
                    newCellRef == CellRef(g, row + 1, col + 1)
                    newRow == [H.rows[state.grid.cells[row + 1]] EXCEPT ![col + 1] = newCellRef]
                    newCell == [current EXCEPT !.state = newState]
                    newCells == [state.grid.cells EXCEPT ![row + 1] = newRowRef]
                IN  [thrown |-> "none",
                     state  |-> [state EXCEPT
                                   !.grid = [size |-> state.grid.size, cells |-> newCells]],
                     rows   |-> [ref \in {newRowRef} |-> newRow],
                     cells  |-> [ref \in {newCellRef} |-> newCell]]

\* Variant: newRow is the old row array itself, not a copy, so writing
\* newRow[col] writes into the previous state's row.
setCellStateAliasRow(H, state, row, col, newState, g) ==
  IF getCellThrows(state, row, col) THEN Threw("OutOfBounds")
  ELSE LET current == getCell(H, state, row, col)
           oldRowRef == state.grid.cells[row + 1]
           newCellRef == CellRef(g, row + 1, col + 1)
       IN  [thrown |-> "none",
            state  |-> [state EXCEPT !.moves = state.moves + 1],
            rows   |-> [ref \in {oldRowRef} |->
                          [H.rows[oldRowRef] EXCEPT ![col + 1] = newCellRef]],
            cells  |-> [ref \in {newCellRef} |-> [current EXCEPT !.state = newState]]]

\* Variant: the changed branch clones the whole grid (cloneGrid) before it
\* writes the cell, so nothing is shared with the previous state.
setCellStateCloneGrid(H, state, row, col, newState, g) ==
  IF getCellThrows(state, row, col) THEN Threw("OutOfBounds")
  ELSE LET current == getCell(H, state, row, col)
           a == AllocCells(g, [CellsOf(H, state) EXCEPT ![row + 1][col + 1].state = newState])
       IN  [thrown |-> "none",
            state  |-> [state EXCEPT
                          !.grid = [state.grid EXCEPT !.cells = a.refs],
                          !.moves = IF current.state = newState THEN state.moves
                                    ELSE state.moves + 1],
            rows   |-> a.rows,
            cells  |-> a.cells]

\* Variant: row and col swapped when the cell is looked up and replaced.
setCellStateSwapped(H, state, row, col, newState, g) ==
  IF getCellThrows(state, row, col) THEN Threw("OutOfBounds")
  ELSE LET current == getCell(H, state, col, row)
           newRowRef == RowRef(g, col + 1)
           newCellRef == CellRef(g, col + 1, row + 1)
       IN  [thrown |-> "none",
            state  |-> [state EXCEPT
                          !.grid = [size |-> state.grid.size,
                                    cells |-> [state.grid.cells EXCEPT ![col + 1] = newRowRef]],
                          !.moves = state.moves + 1],
            rows   |-> [ref \in {newRowRef} |->
                          [H.rows[state.grid.cells[col + 1]] EXCEPT ![row + 1] = newCellRef]],
            cells  |-> [ref \in {newCellRef} |-> [current EXCEPT !.state = newState]]]

\* Variant: a position outside the grid is ignored, the state is returned
\* as it is.
setCellStateIgnoresOutside(H, state, row, col, newState, g) ==
  IF getCellThrows(state, row, col)
  THEN [thrown |-> "none", state |-> state, rows |-> <<>>, cells |-> <<>>]
  ELSE LET current == getCell(H, state, row, col)
       IN  IF current.state = newState
           THEN LET a == AllocCells(g, CellsOf(H, state))
                IN  [thrown |-> "none",
                     state  |-> [state EXCEPT !.grid = [state.grid EXCEPT !.cells = a.refs]],
                     rows   |-> a.rows,
                     cells  |-> a.cells]
           ELSE LET newRowRef == RowRef(g, row + 1)
                    newCellRef == CellRef(g, row + 1, col + 1)
                    newRow == [H.rows[state.grid.cells[row + 1]] EXCEPT ![col + 1] = newCellRef]
                    newCell == [current EXCEPT !.state = newState]
                    newCells == [state.grid.cells EXCEPT ![row + 1] = newRowRef]
                IN  [thrown |-> "none",
                     state  |-> [state EXCEPT
                                   !.grid = [size |-> state.grid.size, cells |-> newCells],
                                   !.moves = state.moves + 1],
                     rows   |-> [ref \in {newRowRef} |-> newRow],
                     cells  |-> [ref \in {newCellRef} |-> newCell]]

setCellState(H, state, row, col, newState, g) ==
  IF getCellThrows(state, row, col) THEN Threw("OutOfBounds")
  ELSE LET current == getCell(H, state, row, col)
       IN  IF current.state = newState
           THEN \* every row array and every cell object copied, moves as it was
                LET a == AllocCells(g, CellsOf(H, state))
                IN  [thrown |-> "none",
                     state  |-> [state EXCEPT !.grid = [state.grid EXCEPT !.cells = a.refs]],
                     rows   |-> a.rows,
                     cells  |-> a.cells]
           ELSE \* newRow, newCell and newCells are new; every other row array
                \* and cell object is the old state's
                LET newRowRef == RowRef(g, row + 1)
                    newCellRef == CellRef(g, row + 1, col + 1)
                    newRow == [H.rows[state.grid.cells[row + 1]] EXCEPT ![col + 1] = newCellRef]
                    newCell == [current EXCEPT !.state = newState]
                    newCells == [state.grid.cells EXCEPT ![row + 1] = newRowRef]
                IN  [thrown |-> "none",
                     state  |-> [state EXCEPT
                                   !.grid = [size |-> state.grid.size, cells |-> newCells],
                                   !.moves = state.moves + 1],
                     rows   |-> [ref \in {newRowRef} |-> newRow],
                     cells  |-> [ref \in {newCellRef} |-> newCell]]

\* The grid of the state setCellState returns, as a plain value: the cell
\* at (row, col) has the new state, everything else is as it was.
GridSetCell(grid, row, col, newState) ==
  [grid EXCEPT !.cells[row + 1][col + 1].state = newState]

\* Variant: Shaded falls through to the default case.
NextCellStateSkipsKept(s) == IF s = Unmarked THEN Shaded ELSE Unmarked

\* The switch of cycleCellState.
NextCellState(s) ==
  CASE s = Unmarked -> Shaded
    [] s = Shaded -> Kept
    [] OTHER -> Unmarked

cycleCellState(H, state, row, col, g) ==
  IF getCellThrows(state, row, col) THEN Threw("OutOfBounds")
  ELSE setCellState(H, state, row, col,
                    NextCellState(getCell(H, state, row, col).state), g)

serializeState(H, state) ==
  [puzzleId   |-> state.puzzle.id,
   size       |-> state.grid.size,
   cellStates |-> [r \in Idx(CellsOf(H, state)) |->
                    [c \in Idx(CellsOf(H, state)[r]) |-> CellsOf(H, state)[r][c].state]],
   moves      |-> state.moves,
   elapsedMs  |-> state.elapsedMs,
   startTime  |-> state.startTime]

\* Variant: the stored size is not compared with puzzle.size.
deserializeStateNoSizeCheck(puzzle, serialized, g) ==
  IF puzzle.id # serialized.puzzleId THEN Threw("PuzzleMismatch")
  ELSE IF createGridFromNumbersThrows(puzzle.numbers) THEN Threw("MalformedLayout")
  ELSE IF \/ Len(serialized.cellStates) # puzzle.size
          \/ \E r \in Idx(serialized.cellStates) :
               Len(serialized.cellStates[r]) # puzzle.size
       THEN Threw("DimensionMismatch")
  ELSE IF Len(puzzle.numbers) > Len(serialized.cellStates) THEN Threw("TypeError")
  ELSE LET base == createGridFromNumbers(puzzle.numbers)
           cells == [r \in Idx(base.cells) |-> [c \in Idx(base.cells[r]) |->
                       [base.cells[r][c] EXCEPT !.state = serialized.cellStates[r][c]]]]
           a == AllocCells(g, cells)
       IN  [thrown |-> "none",
            state  |-> [puzzle    |-> puzzle,
                        grid      |-> [size |-> puzzle.size, cells |-> a.refs],
                        moves     |-> serialized.moves,
                        startTime |-> serialized.startTime,
                        elapsedMs |-> serialized.elapsedMs],
            rows   |-> a.rows,
            cells  |-> a.cells]

\* Variant: moves is taken from the fresh base state, not from the snapshot.
deserializeStateBaseMoves(puzzle, serialized, g) ==
  IF puzzle.id # serialized.puzzleId THEN Threw("PuzzleMismatch")
  ELSE IF puzzle.size # serialized.size THEN Threw("SizeMismatch")
  ELSE IF createGridFromNumbersThrows(puzzle.numbers) THEN Threw("MalformedLayout")
  ELSE IF \/ Len(serialized.cellStates) # puzzle.size
          \/ \E r \in Idx(serialized.cellStates) :
               Len(serialized.cellStates[r]) # puzzle.size
       THEN Threw("DimensionMismatch")
  ELSE IF Len(puzzle.numbers) > Len(serialized.cellStates) THEN Threw("TypeError")
  ELSE LET base == createGridFromNumbers(puzzle.numbers)
           cells == [r \in Idx(base.cells) |-> [c \in Idx(base.cells[r]) |->
                       [base.cells[r][c] EXCEPT !.state = serialized.cellStates[r][c]]]]
           a == AllocCells(g, cells)
       IN  [thrown |-> "none",
            state  |-> [puzzle    |-> puzzle,
                        grid      |-> [size |-> puzzle.size, cells |-> a.refs],
                        moves     |-> 0,
                        startTime |-> serialized.startTime,
                        elapsedMs |-> serialized.elapsedMs],
            rows   |-> a.rows,
            cells  |-> a.cells]

\* The base grid has numbers.length rows: past the last row of cellStates,
\* serialized.cellStates[r] is undefined and reading [c] of it throws.
deserializeState(puzzle, serialized, g) ==
  IF puzzle.id # serialized.puzzleId THEN Threw("PuzzleMismatch")
  ELSE IF puzzle.size # serialized.size THEN Threw("SizeMismatch")
  ELSE IF createGridFromNumbersThrows(puzzle.numbers) THEN Threw("MalformedLayout")
  ELSE IF \/ Len(serialized.cellStates) # puzzle.size
          \/ \E r \in Idx(serialized.cellStates) :
               Len(serialized.cellStates[r]) # puzzle.size
       THEN Threw("DimensionMismatch")
  ELSE IF Len(puzzle.numbers) > Len(serialized.cellStates) THEN Threw("TypeError")
  ELSE LET base == createGridFromNumbers(puzzle.numbers)
           cells == [r \in Idx(base.cells) |-> [c \in Idx(base.cells[r]) |->
                       [base.cells[r][c] EXCEPT !.state = serialized.cellStates[r][c]]]]
           a == AllocCells(g, cells)
       IN  [thrown |-> "none",
            state  |-> [puzzle    |-> puzzle,
                        grid      |-> [size |-> puzzle.size, cells |-> a.refs],
                        moves     |-> serialized.moves,
                        startTime |-> serialized.startTime,
                        elapsedMs |-> serialized.elapsedMs],
            rows   |-> a.rows,
            cells  |-> a.cells]

\* --------------------------------------------------------- UndoRedo.ts

createHistory(initial) == [past |-> <<>>, present |-> initial, future |-> <<>>]

\* Variant: the future is kept.
applyActionKeepsFuture(h, newPresent) ==
  [past |-> Append(h.past, h.present), present |-> newPresent, future |-> h.future]

applyAction(h, newPresent) ==
  [past |-> Append(h.past, h.present), present |-> newPresent, future |-> <<>>]

\* Variant: the new future holds the old present only.
undoDropsFuture(h) ==
  IF Len(h.past) = 0 THEN h
  ELSE [past    |-> SubSeq(h.past, 1, Len(h.past) - 1),
        present |-> h.past[Len(h.past)],
        future  |-> <<h.present>>]

undo(h) ==
  IF Len(h.past) = 0 THEN h
  ELSE [past    |-> SubSeq(h.past, 1, Len(h.past) - 1),
        present |-> h.past[Len(h.past)],
        future  |-> <<h.present>> \o h.future]

\* Variant: the present is not pushed onto the past.
redoSkipsPresent(h) ==
  IF Len(h.future) = 0 THEN h
  ELSE [past    |-> h.past,
        present |-> h.future[1],
        future  |-> SubSeq(h.future, 2, Len(h.future))]

redo(h) ==
  IF Len(h.future) = 0 THEN h
  ELSE [past    |-> Append(h.past, h.present),
        present |-> h.future[1],
        future  |-> SubSeq(h.future, 2, Len(h.future))]

canUndo(h) == Len(h.past) > 0
canRedo(h) == Len(h.future) > 0

\* ------------------------------------------------------------- Spec
\* The play-state API driven by a caller that keeps every returned state
\* in an undo history (PlayScene does: applyAction after each change).

\* The puzzles of the state tests: createTestPuzzle(1), and the 2 x 2
\* layout of the rules test.
Puzzles ==
  { [id |-> "test-puzzle", size |-> 1, difficulty |-> "easy",
     numbers |-> << <<1>> >>],
    [id |-> "rules-test", size |-> 2, difficulty |-> "easy",
     numbers |-> << <<1, 1>>, <<2, 2>> >>] }

Idle == <<>>
IdleGen == [pc |-> "idle"]

\* The chain of states the history holds, oldest first.
Chain(h) == h.past \o <<h.present>> \o h.future

NoOp == [kind |-> "init", row |-> -1, col |-> -1, target |-> "none"]
Op(kind, row, col, target) == [kind |-> kind, row |-> row, col |-> col, target |-> target]

Init ==
  /\ \E puzzle \in Puzzles :
       LET made == createInitialState(puzzle, 1)
       IN  /\ heap = [rows |-> made.rows, cells |-> made.cells]
           /\ history = createHistory(made.state)
           /\ ghost = << [op |-> NoOp, value |-> ValueOf(made, made.state)] >>
  /\ thrown = "none"
  /\ board = Idle
  /\ report = Idle
  /\ gen = IdleGen

\* The generation of the objects the next returned state allocates.
NextGen == Len(history.past) + 2

\* A call returned res: a throw leaves everything as it was; a returned
\* state becomes the present, the old present goes to the past and the
\* future is dropped. No call is made while an error is in flight.
Returned(res, op) ==
  IF res.thrown # "none"
  THEN /\ thrown = "none"
       /\ thrown' = res.thrown
       /\ UNCHANGED <<heap, history, ghost>>
  ELSE /\ thrown = "none"
       /\ NextGen <= MaxStates
       /\ LET H == Merge(Collect(heap, NextGen - 1), res)
          IN  /\ heap' = H
              /\ history' = applyAction(history, res.state)
              /\ ghost' = Append(SubSeq(ghost, 1, NextGen - 1),
                                 [op |-> op, value |-> ValueOf(H, res.state)])
       /\ thrown' = "none"

\* Positions a caller may pass: every cell, and one step outside each edge
\* (the bounds test's (-1, 0), (size, 0), (0, size), and (0, -1)).
Positions ==
  LET size == history.present.grid.size
  IN  {Pos(r, c) : r \in 0..(size - 1), c \in 0..(size - 1)}
        \cup {Pos(-1, 0), Pos(size, 0), Pos(0, size), Pos(0, -1)}

SetCellState ==
  /\ \E p \in Positions, newState \in CellStates :
       Returned(setCellState(heap, history.present, p.row, p.col, newState, NextGen),
                Op("set", p.row, p.col, newState))
  /\ UNCHANGED <<board, report, gen>>

CycleCellState ==
  /\ \E p \in Positions :
       Returned(cycleCellState(heap, history.present, p.row, p.col, NextGen),
                Op("cycle", p.row, p.col, "none"))
  /\ UNCHANGED <<board, report, gen>>

\* Snapshots a caller may hold of the present: the one serializeState
\* returns, and the same with the clock fields a session has advanced.
Snapshots ==
  LET snap == serializeState(heap, history.present)
  IN  {snap, [snap EXCEPT !.elapsedMs = 5, !.startTime = At(7)]}

\* Snapshots that do not fit: a stored size one too large, a matrix that
\* lost its last row, and one whose first row lost its last entry.
DamagedSnapshots ==
  LET snap == serializeState(heap, history.present)
      rows == snap.cellStates
  IN  { [snap EXCEPT !.size = @ + 1],
        [snap EXCEPT !.cellStates = SubSeq(rows, 1, Len(rows) - 1)],
        [snap EXCEPT !.cellStates[1] = SubSeq(rows[1], 1, Len(rows[1]) - 1)] }

\* The puzzles a caller may pass with a snapshot: the present's, and the
\* same under another id (wrongPuzzle of the state test).
CallerPuzzles ==
  {history.present.puzzle, [history.present.puzzle EXCEPT !.id = "different-id"]}

Deserialize ==
  /\ \E puzzle \in CallerPuzzles, serialized \in Snapshots \cup DamagedSnapshots :
       Returned(deserializeState(puzzle, serialized, NextGen),
                Op("deserialize", -1, -1, "none"))
  /\ UNCHANGED <<board, report, gen>>

Undo ==
  /\ thrown = "none"
  /\ canUndo(history)
  /\ history' = undo(history)
  /\ thrown' = "none"
  /\ UNCHANGED <<heap, ghost, board, report, gen>>

Redo ==
  /\ thrown = "none"
  /\ canRedo(history)
  /\ history' = redo(history)
  /\ thrown' = "none"
  /\ UNCHANGED <<heap, ghost, board, report, gen>>

\* The caller catches the error a call threw (expect(...).toThrow() in the
\* state tests); the states are as they were before the call.
Catch ==
  /\ thrown # "none"
  /\ thrown' = "none"
  /\ UNCHANGED <<heap, history, ghost, board, report, gen>>

Next == SetCellState \/ CycleCellState \/ Deserialize \/ Undo \/ Redo \/ Catch

Spec == Init /\ [][Next]_vars

\* -------------------------------------------------------- SpecRules
\* A board is played by clicks (each cycles one cell); the rule checks are
\* run on demand, and a report is never kept across a change of the board.

\* Parametric layouts: the values run along the anti-diagonals modulo m
\* (m = 1: one value everywhere; m = n: the generator's Latin square).
DiagLayout(n, m) == [r \in 1..n |-> [c \in 1..n |-> ((r + c - 2) % m) + 1]]

FamilyLayouts == {DiagLayout(n, m) : n \in 1..MaxSize, m \in 1..MaxVal}

\* The layouts of HitoriRules.test.ts.
TestLayouts ==
  { << <<1, 1>>, <<2, 2>> >>,
    << <<1, 1>>, <<2, 3>> >>,
    << <<1, 2>>, <<3, 4>> >>,
    << <<1, 2, 3>>, <<4, 5, 6>>, <<7, 8, 9>> >> }

\* The 2 x 2 test layouts with duplicates, transposed: the duplicates are
\* in the columns.
TransposedLayouts ==
  { << <<1, 2>>, <<1, 2>> >>,
    << <<1, 2>>, <<1, 3>> >> }

RuleLayouts == FamilyLayouts \cup TestLayouts \cup TransposedLayouts

\* No report: none was asked for since the board last changed.
Stale == [isSolved |-> "stale"]

InitRules ==
  /\ \E numbers \in RuleLayouts : board = createGridFromNumbers(numbers)
  /\ report = Stale
  /\ heap = NoHeap
  /\ history = Idle
  /\ ghost = Idle
  /\ thrown = "none"
  /\ gen = IdleGen

\* PlayScene runs checkAllRules after every change (autoCheckSolved): a
\* click is taken once the previous change has been checked.
Click ==
  /\ report # Stale
  /\ \E row \in 0..(board.size - 1), col \in 0..(board.size - 1) :
       board' = GridSetCell(board, row, col,
                            NextCellState(CellAt(board, row, col).state))
  /\ report' = Stale
  /\ UNCHANGED <<heap, history, ghost, thrown, gen>>

\* The checks are pure: run again on an unchanged board they return the
\* same report, so only the first run after a change is a step.
Check ==
  /\ report = Stale
  /\ report' = checkAllRules(board)
  /\ UNCHANGED <<board, heap, history, ghost, thrown, gen>>

NextRules == Click \/ Check

SpecRules == InitRules /\ [][NextRules]_vars

\* ------------------------------------------------------ HitoriHints.ts
\* HitoriHint | null: null is the empty tuple, a hint a 1-tuple.

NoHint == <<>>
Hint(row, col, suggestedState, reason) ==
  << [row |-> row, col |-> col, suggestedState |-> suggestedState, reason |-> reason] >>

GroupCell(row, col, state) == [row |-> row, col |-> col, state |-> state]

\* The smallest index of a non-empty set of indices: what find and the
\* first return of a for loop pick.
First(S) == CHOOSE i \in S : \A j \in S : i <= j

NumInState(cells, s) == Cardinality({i \in Idx(cells) : cells[i].state = s})

\* Variant: case A proposes the first member other than the Kept one, also
\* when it is already Shaded.
analyzeGroupAnyOther(cells) ==
  IF Len(cells) <= 1 THEN NoHint
  ELSE LET numKept == NumInState(cells, Kept)
           numShaded == NumInState(cells, Shaded)
           numUnmarked == NumInState(cells, Unmarked)
           keptCell == cells[First({i \in Idx(cells) : cells[i].state = Kept})]
           open == {i \in Idx(cells) :
                      ~(cells[i].row = keptCell.row /\ cells[i].col = keptCell.col)}
           target == cells[First({i \in Idx(cells) : cells[i].state = Unmarked})]
       IN  IF numKept = 1 /\ open # {}
           THEN Hint(cells[First(open)].row, cells[First(open)].col, Shaded,
                     "duplicate-resolution")
           ELSE IF numKept = 0 /\ numShaded = Len(cells) - 1 /\ numUnmarked = 1
           THEN Hint(target.row, target.col, Kept, "duplicate-resolution")
           ELSE NoHint

\* analyzeGroup: case A (exactly one Kept: the first member that is neither
\* the Kept one nor Shaded is to be Shaded; the loop may end without one),
\* then case B (no Kept, one Unmarked, the rest Shaded: it is to be Kept).
analyzeGroup(cells) ==
  IF Len(cells) <= 1 THEN NoHint
  ELSE LET numKept == NumInState(cells, Kept)
           numShaded == NumInState(cells, Shaded)
           numUnmarked == NumInState(cells, Unmarked)
           keptCell == cells[First({i \in Idx(cells) : cells[i].state = Kept})]
           open == {i \in Idx(cells) :
                      /\ ~(cells[i].row = keptCell.row /\ cells[i].col = keptCell.col)
                      /\ cells[i].state # Shaded}
           target == cells[First({i \in Idx(cells) : cells[i].state = Unmarked})]
       IN  IF numKept = 1 /\ open # {}
           THEN Hint(cells[First(open)].row, cells[First(open)].col, Shaded,
                     "duplicate-resolution")
           ELSE IF numKept = 0 /\ numShaded = Len(cells) - 1 /\ numUnmarked = 1
           THEN Hint(target.row, target.col, Kept, "duplicate-resolution")
           ELSE NoHint

\* The bucket of row r: every cell is pushed, whatever its state.
RECURSIVE HintRowBucket(_, _, _, _)
HintRowBucket(grid, r, c, bucket) ==
  IF c >= grid.size THEN bucket
  ELSE HintRowBucket(grid, r, c + 1,
                     BucketPush(bucket, CellAt(grid, r, c).value,
                                GroupCell(r, c, CellAt(grid, r, c).state)))

\* The bucket of column c.
RECURSIVE HintColBucket(_, _, _, _)
HintColBucket(grid, c, r, bucket) ==
  IF r >= grid.size THEN bucket
  ELSE HintColBucket(grid, c, r + 1,
                     BucketPush(bucket, CellAt(grid, r, c).value,
                                GroupCell(r, c, CellAt(grid, r, c).state)))

\* for (const group of bucket.values()): the first group's hint, from
\* group k on.
RECURSIVE GroupsHint(_, _)
GroupsHint(bucket, k) ==
  IF k > Len(bucket) THEN NoHint
  ELSE LET hint == analyzeGroup(bucket[k].cells)
       IN  IF hint # NoHint THEN hint ELSE GroupsHint(bucket, k + 1)

\* The loop over the rows, from row r on.
RECURSIVE RowsHint(_, _)
RowsHint(grid, r) ==
  IF r >= grid.size THEN NoHint
  ELSE LET hint == GroupsHint(HintRowBucket(grid, r, 0, <<>>), 1)
       IN  IF hint # NoHint THEN hint ELSE RowsHint(grid, r + 1)

\* The loop over the columns, from column c on.
RECURSIVE ColsHint(_, _)
ColsHint(grid, c) ==
  IF c >= grid.size THEN NoHint
  ELSE LET hint == GroupsHint(HintColBucket(grid, c, 0, <<>>), 1)
       IN  IF hint # NoHint THEN hint ELSE ColsHint(grid, c + 1)

\* Variant: the columns are scanned before the rows.
findDuplicateResolutionHintColumnsFirst(grid) ==
  LET hint == ColsHint(grid, 0)
  IN  IF hint # NoHint THEN hint ELSE RowsHint(grid, 0)

findDuplicateResolutionHint(grid) ==
  LET hint == RowsHint(grid, 0)
  IN  IF hint # NoHint THEN hint ELSE ColsHint(grid, 0)

\* Variant: the neighbours are tried right, left, down, up.
HintNeighborsRightFirst(r, c) == << Pos(r, c + 1), Pos(r, c - 1), Pos(r + 1, c), Pos(r - 1, c) >>

\* neighbors of findAdjacentShadedHint: up, down, left, right.
HintNeighbors(r, c) == << Pos(r - 1, c), Pos(r + 1, c), Pos(r, c - 1), Pos(r, c + 1) >>

\* Variant: the scanned cell itself is proposed, not its neighbour.
RECURSIVE NeighborHintScannedCell(_, _, _, _)
NeighborHintScannedCell(grid, r, c, i) ==
  IF i > 4 THEN NoHint
  ELSE LET n == HintNeighbors(r, c)[i]
       IN  IF ~inBounds(grid, n.row, n.col) THEN NeighborHintScannedCell(grid, r, c, i + 1)
           ELSE IF CellAt(grid, n.row, n.col).state = Shaded
           THEN Hint(r, c, Unmarked, "adjacent-shaded")
           ELSE NeighborHintScannedCell(grid, r, c, i + 1)

\* Variant: the neighbour is proposed the state it already has.
RECURSIVE NeighborHintStaysShaded(_, _, _, _)
NeighborHintStaysShaded(grid, r, c, i) ==
  IF i > 4 THEN NoHint
  ELSE LET n == HintNeighbors(r, c)[i]
       IN  IF ~inBounds(grid, n.row, n.col) THEN NeighborHintStaysShaded(grid, r, c, i + 1)
           ELSE IF CellAt(grid, n.row, n.col).state = Shaded
           THEN Hint(n.row, n.col, Shaded, "adjacent-shaded")
           ELSE NeighborHintStaysShaded(grid, r, c, i + 1)

\* The loop over the neighbours of (r, c), from neighbour i on.
RECURSIVE NeighborHint(_, _, _, _)
NeighborHint(grid, r, c, i) ==
  IF i > 4 THEN NoHint
  ELSE LET n == HintNeighbors(r, c)[i]
       IN  IF ~inBounds(grid, n.row, n.col) THEN NeighborHint(grid, r, c, i + 1)
           ELSE IF CellAt(grid, n.row, n.col).state = Shaded
           THEN Hint(n.row, n.col, Unmarked, "adjacent-shaded")
           ELSE NeighborHint(grid, r, c, i + 1)

\* The loops over r and c, flattened: visit k is cell k in row-major order.
RECURSIVE AdjacentShadedScan(_, _)
AdjacentShadedScan(grid, k) ==
  IF k >= grid.size * grid.size THEN NoHint
  ELSE LET r == k \div grid.size
           c == k % grid.size
       IN  IF CellAt(grid, r, c).state # Shaded THEN AdjacentShadedScan(grid, k + 1)
           ELSE LET hint == NeighborHint(grid, r, c, 1)
                IN  IF hint # NoHint THEN hint ELSE AdjacentShadedScan(grid, k + 1)

findAdjacentShadedHint(grid) == AdjacentShadedScan(grid, 0)

\* Variant: the adjacent-shaded strategy is tried first.
findHintAdjacentFirst(grid) ==
  LET adj == findAdjacentShadedHint(grid)
  IN  IF adj # NoHint THEN adj ELSE findDuplicateResolutionHint(grid)

findHint(grid) ==
  LET dup == findDuplicateResolutionHint(grid)
  IN  IF dup # NoHint THEN dup ELSE findAdjacentShadedHint(grid)

\* -------------------------------------------------------- SpecHints
\* A board is marked by clicks (each cycles one cell) and findHint is asked
\* on it; the hint is forgotten when the board changes.

\* The layouts of HitoriHints.test.ts.
HintTestLayouts ==
  { << <<5, 5, 5>>, <<1, 2, 3>>, <<4, 6, 7>> >>,
    << <<1, 7, 2>>, <<3, 7, 4>>, <<5, 7, 6>> >>,
    << <<1, 2, 3>>, <<4, 5, 6>>, <<7, 8, 9>> >>,
    << <<5, 5, 0>>, <<1, 2, 3>>, <<4, 6, 7>> >> }

\* Small layouts: one cell, one value everywhere (every row and every
\* column is a group), and the 2 x 2 Latin square (no group).
SmallHintLayouts ==
  { << <<1>> >>,
    << <<1, 1>>, <<1, 1>> >>,
    << <<1, 2>>, <<2, 1>> >> }

HintLayouts == SmallHintLayouts \cup TransposedLayouts \cup HintTestLayouts

InitHints ==
  /\ \E numbers \in HintLayouts : board = createGridFromNumbers(numbers)
  /\ report = Stale
  /\ heap = NoHeap
  /\ history = Idle
  /\ ghost = Idle
  /\ thrown = "none"
  /\ gen = IdleGen

Mark ==
  /\ \E row \in 0..(board.size - 1), col \in 0..(board.size - 1) :
       board' = GridSetCell(board, row, col,
                            NextCellState(CellAt(board, row, col).state))
  /\ report' = Stale
  /\ UNCHANGED <<heap, history, ghost, thrown, gen>>

AskHint ==
  /\ report = Stale
  /\ report' = [hint |-> findHint(board)]
  /\ UNCHANGED <<board, heap, history, ghost, thrown, gen>>

NextHints == Mark \/ AskHint

SpecHints == InitHints /\ [][NextHints]_vars

\* ---------------------------------------------------- SpecHintsWide
\* As SpecHints, on a few marks only: the boards of SpecHints and a
\* 4 x 4 board whose first row and first column each hold two values
\* twice, with at most MaxMarked cells marked.

WideHintLayouts ==
  { << <<1, 2, 1, 2>>, <<3, 4, 5, 6>>, <<1, 7, 8, 9>>, <<3, 10, 11, 12>> >> }

NumMarked(grid) ==
  Cardinality({p \in (0..(grid.size - 1)) \X (0..(grid.size - 1)) :
                 CellAt(grid, p[1], p[2]).state # Unmarked})

InitHintsWide ==
  /\ \E numbers \in HintLayouts \cup WideHintLayouts :
       board = createGridFromNumbers(numbers)
  /\ report = Stale
  /\ heap = NoHeap
  /\ history = Idle
  /\ ghost = Idle
  /\ thrown = "none"
  /\ gen = IdleGen

MarkFew ==
  /\ \E row \in 0..(board.size - 1), col \in 0..(board.size - 1) :
       board' = GridSetCell(board, row, col,
                            NextCellState(CellAt(board, row, col).state))
  /\ NumMarked(board') <= MaxMarked
  /\ report' = Stale
  /\ UNCHANGED <<heap, history, ghost, thrown, gen>>

NextHintsWide == MarkFew \/ AskHint

SpecHintsWide == InitHintsWide /\ [][NextHintsWide]_vars

\* -------------------------------------------------------- SpecChase
\* A player follows the hints: starting from any marking of a 2 x 2 board,
\* the hint findHint returns is applied (the target set to suggestedState)
\* and findHint is asked again, up to MaxChase times.  ghost holds the
\* grids the hints were asked on, oldest first.

ChaseLayouts == SmallHintLayouts \cup TransposedLayouts

Markings(numbers) ==
  LET grid == createGridFromNumbers(numbers)
  IN  {[grid EXCEPT !.cells =
          [r \in Idx(numbers) |-> [c \in Idx(numbers) |->
             [grid.cells[r][c] EXCEPT !.state = states[r][c]]]]] :
         states \in [Idx(numbers) -> [Idx(numbers) -> CellStates]]}

InitChase ==
  /\ \E numbers \in ChaseLayouts : board \in Markings(numbers)
  /\ ghost = <<>>
  /\ report = Idle
  /\ heap = NoHeap
  /\ history = Idle
  /\ thrown = "none"
  /\ gen = IdleGen

ApplyHint ==
  /\ Len(ghost) < MaxChase
  /\ findHint(board) # NoHint
  /\ LET hint == findHint(board)[1]
     IN  board' = GridSetCell(board, hint.row, hint.col, hint.suggestedState)
  /\ ghost' = Append(ghost, board)
  /\ UNCHANGED <<heap, history, thrown, report, gen>>

NextChase == ApplyHint

SpecChase == InitChase /\ [][NextChase]_vars

\* --------------------------------------------------------- SpecLoad
\* A caller starts a game from a puzzle record and restores it from stored
\* snapshots.  HitoriPuzzle declares size and numbers side by side and
\* nothing on this path compares them (createGridForPuzzle does, and is
\* not called), so the records range over declared sizes that match the
\* layout and ones that do not.

LoadPuzzles == {[p EXCEPT !.size = s] : p \in Puzzles, s \in 1..(MaxSize + 1)}

\* k x k matrices of cell states with at most n cells marked.
RECURSIVE MarkedMatrices(_, _)
MarkedMatrices(k, n) ==
  IF n = 0 THEN {[r \in 1..k |-> [c \in 1..k |-> Unmarked]]}
  ELSE LET fewer == MarkedMatrices(k, n - 1)
       IN  fewer \cup {[m EXCEPT ![r][c] = s] :
                         m \in fewer, r \in 1..k, c \in 1..k, s \in {Shaded, Kept}}

\* Stored snapshots under the puzzle's id: any stored size, any square
\* matrix of cell states with a few cells marked.
LoadSnapshots(puzzle) ==
  {[puzzleId   |-> puzzle.id,
    size       |-> s,
    cellStates |-> m,
    moves      |-> n,
    elapsedMs  |-> 0,
    startTime  |-> Null] :
     s \in 1..(MaxSize + 1),
     m \in UNION {MarkedMatrices(k, MaxMarked) : k \in 1..(MaxSize + 1)},
     n \in {0, MaxMarked}}

\* What the caller sees of a call: the error, or the returned state.
Outcome(res) ==
  IF res.thrown # "none" THEN [thrown |-> res.thrown]
  ELSE [thrown |-> "none", value |-> ValueOf(res, res.state)]

InitLoad ==
  /\ \E puzzle \in LoadPuzzles : board = [pc |-> "new", puzzle |-> puzzle]
  /\ report = Idle
  /\ heap = NoHeap
  /\ history = Idle
  /\ ghost = <<>>
  /\ thrown = "none"
  /\ gen = IdleGen

CreateInitial ==
  /\ board.pc = "new"
  /\ report' = Outcome(createInitialState(board.puzzle, 1))
  /\ board' = [board EXCEPT !.pc = "created"]
  /\ UNCHANGED <<heap, history, ghost, thrown, gen>>

Restore ==
  /\ board.pc # "new"
  /\ \E serialized \in LoadSnapshots(board.puzzle) :
       report' = Outcome(deserializeState(board.puzzle, serialized, 2))
  /\ board' = [board EXCEPT !.pc = "restored"]
  /\ UNCHANGED <<heap, history, ghost, thrown, gen>>

NextLoad == CreateInitial \/ Restore

SpecLoad == InitLoad /\ [][NextLoad]_vars

\* -------------------------------------------------------- SpecScene
\* PlayScene: history is this.history, whose states are plain values
\* (puzzle, grid, moves); report holds the scene's other fields:
\* isCompleted, hintsUsed, and marks, the number of markPuzzleCompleted
\* calls since the last init or reset.

\* The puzzles the scene is started on.
SceneLayouts == TestLayouts \cup TransposedLayouts \cup SmallHintLayouts

\* createInitialState(puzzle) as a value.
InitialValue(numbers) ==
  [puzzle |-> numbers, grid |-> createGridFromNumbers(numbers), moves |-> 0]

\* cycleCellState(state, row, col) as a value: the cell takes the next
\* state of the cycle, which always differs, so moves grows by one.
CycleValue(state, row, col) ==
  [state EXCEPT
     !.grid = GridSetCell(state.grid, row, col,
                          NextCellState(CellAt(state.grid, row, col).state)),
     !.moves = @ + 1]

InitScene ==
  /\ \E numbers \in SceneLayouts : history = createHistory(InitialValue(numbers))
  /\ report = [isCompleted |-> FALSE, hintsUsed |-> 0, marks |-> 0]
  /\ heap = NoHeap
  /\ ghost = Idle
  /\ thrown = "none"
  /\ board = Idle
  /\ gen = IdleGen

\* Variant: no early return when already completed.
onPuzzleSolvedAgain(fields) ==
  [fields EXCEPT !.isCompleted = TRUE, !.marks = @ + 1]

\* onPuzzleSolved: returns when already completed; else sets isCompleted
\* and calls markPuzzleCompleted.
onPuzzleSolved(fields) ==
  IF fields.isCompleted THEN fields
  ELSE [fields EXCEPT !.isCompleted = TRUE, !.marks = @ + 1]

\* Variant: the automatic check leaves connectivity out.
autoCheckSolvedWithoutConnectivity(fields, state) ==
  IF fields.isCompleted THEN fields
  ELSE IF checkAllRulesWithoutConnectivity(state.grid).isSolved THEN onPuzzleSolved(fields)
  ELSE fields

\* autoCheckSolved on the present state.
autoCheckSolved(fields, state) ==
  IF fields.isCompleted THEN fields
  ELSE IF checkAllRules(state.grid).isSolved THEN onPuzzleSolved(fields)
  ELSE fields

\* The history holds at most MaxStates states: a change is taken while
\* there is room for its state.
Room == Len(history.past) + 2 <= MaxStates

HandleCellClick ==
  /\ ~report.isCompleted
  /\ Room
  /\ \E row \in 0..(history.present.grid.size - 1),
        col \in 0..(history.present.grid.size - 1) :
       LET next == CycleValue(history.present, row, col)
       IN  /\ history' = applyAction(history, next)
           /\ report' = autoCheckSolved(report, next)
  /\ UNCHANGED <<heap, ghost, thrown, board, gen>>

HandleUndo ==
  /\ undo(history) # history
  /\ history' = undo(history)
  /\ report' = autoCheckSolved(report, history'.present)
  /\ UNCHANGED <<heap, ghost, thrown, board, gen>>

HandleRedo ==
  /\ redo(history) # history
  /\ history' = redo(history)
  /\ report' = autoCheckSolved(report, history'.present)
  /\ UNCHANGED <<heap, ghost, thrown, board, gen>>

HandleReset ==
  /\ history' = createHistory(InitialValue(history.present.puzzle))
  /\ report' = [isCompleted |-> FALSE, hintsUsed |-> 0, marks |-> 0]
  /\ UNCHANGED <<heap, ghost, thrown, board, gen>>

\* Variant: the loop gives up after one attempt.
RECURSIVE HintCyclesOneAttempt(_, _, _)
HintCyclesOneAttempt(next, hint, attempts) ==
  IF CellAt(next.grid, hint.row, hint.col).state # hint.suggestedState /\ attempts < 1
  THEN HintCyclesOneAttempt(CycleValue(next, hint.row, hint.col), hint, attempts + 1)
  ELSE next

\* The while loop of handleHint: cycle the target cell until it has the
\* suggested state, three times at most.
RECURSIVE HintCycles(_, _, _)
HintCycles(next, hint, attempts) ==
  IF CellAt(next.grid, hint.row, hint.col).state # hint.suggestedState /\ attempts < 3
  THEN HintCycles(CycleValue(next, hint.row, hint.col), hint, attempts + 1)
  ELSE next

\* handleHint when findHint returns a hint that the loop reaches (with no
\* hint, or a state the loop does not reach, only the status line changes).
\* hintsUsed only ever grows between resets: it is capped at MaxHints.
HandleHint ==
  /\ ~report.isCompleted
  /\ Room
  /\ report.hintsUsed < MaxHints
  /\ findHint(history.present.grid) # NoHint
  /\ LET hint == findHint(history.present.grid)[1]
         next == HintCycles(history.present, hint, 0)
     IN  /\ CellAt(next.grid, hint.row, hint.col).state = hint.suggestedState
         /\ history' = applyAction(history, next)
         /\ report' = autoCheckSolved([report EXCEPT !.hintsUsed = @ + 1], next)
  /\ UNCHANGED <<heap, ghost, thrown, board, gen>>

\* handleCheck: a solved present completes the puzzle; otherwise only the
\* error highlights and the status line change.
HandleCheck ==
  /\ checkAllRules(history.present.grid).isSolved
  /\ report' = onPuzzleSolved(report)
  /\ UNCHANGED <<history, heap, ghost, thrown, board, gen>>

NextScene ==
  HandleCellClick \/ HandleUndo \/ HandleRedo \/ HandleReset \/ HandleHint \/ HandleCheck

SpecScene == InitScene /\ [][NextScene]_vars

\* --------------------------------------------------------- SpecGrid
\* createGridFromNumbers called once on a number[][] of any shape: up to
\* MaxSize rows, each of up to MaxSize values.

SeqsUpTo(S, n) == UNION {[1..k -> S] : k \in 0..n}

AnyLayouts == SeqsUpTo(SeqsUpTo(1..MaxVal, MaxSize), MaxSize) \cup TestLayouts

\* ghost holds the call and its argument, board the grid it returned.
InitGrid ==
  /\ \E numbers \in AnyLayouts :
       ghost = << [op |-> "createGridFromNumbers", numbers |-> numbers, done |-> FALSE] >>
  /\ board = Idle
  /\ thrown = "none"
  /\ report = Idle
  /\ heap = NoHeap
  /\ history = Idle
  /\ gen = IdleGen

CreateGrid ==
  /\ ~ghost[1].done
  /\ ghost' = << [ghost[1] EXCEPT !.done = TRUE] >>
  /\ IF createGridFromNumbersThrows(ghost[1].numbers)
     THEN thrown' = "MalformedLayout" /\ board' = board
     ELSE thrown' = "none" /\ board' = createGridFromNumbers(ghost[1].numbers)
  /\ UNCHANGED <<heap, history, report, gen>>

NextGrid == CreateGrid

SpecGrid == InitGrid /\ [][NextGrid]_vars

\* ------------------------------------------- HitoriPuzzleGenerator.ts
\* Matrices are indexed [y + 1][x + 1]; a cell is a pair <<x, y>> as in
\* the source.  In a shading pattern TRUE is black (shaded).

Difficulties == {"easy", "medium", "hard"}

\* Variant: the row index is left out of the sum.
buildLatinSquareRowsAlike(n) == [y \in 1..n |-> [x \in 1..n |-> ((x - 1) % n) + 1]]

buildLatinSquare(n) == [y \in 1..n |-> [x \in 1..n |-> (((x - 1) + (y - 1)) % n) + 1]]

\* Variant: easy takes the ratio of medium.
targetBlackRatioEasyAsMedium(difficulty) ==
  CASE difficulty = "hard" -> 40
    [] OTHER -> 30

\* The ratio in hundredths.
targetBlackRatio(difficulty) ==
  CASE difficulty = "easy" -> 20
    [] difficulty = "medium" -> 30
    [] OTHER -> 40

\* Math.round(size * size * ratio): the nearest integer, halves upward.
targetBlacks(size, difficulty) ==
  (2 * size * size * targetBlackRatio(difficulty) + 100) \div 200

Black(shaded, x, y) == shaded[y + 1][x + 1]

\* Variant: only the neighbour to the right is looked at.
violatesBlackAdjacencyRowsOnly(shaded) ==
  LET n == Len(shaded)
  IN  \E y \in 0..(n - 1), x \in 0..(n - 1) :
        /\ Black(shaded, x, y)
        /\ x + 1 < n /\ Black(shaded, x + 1, y)

violatesBlackAdjacency(shaded) ==
  LET n == Len(shaded)
  IN  \E y \in 0..(n - 1), x \in 0..(n - 1) :
        /\ Black(shaded, x, y)
        /\ \/ x + 1 < n /\ Black(shaded, x + 1, y)
           \/ y + 1 < n /\ Black(shaded, x, y + 1)

\* The white cells in the order of the counting loops (y outer, x inner).
RECURSIVE WhitesFrom(_, _, _)
WhitesFrom(shaded, k, whites) ==
  LET n == Len(shaded)
  IN  IF k >= n * n THEN whites
      ELSE IF Black(shaded, k % n, k \div n) THEN WhitesFrom(shaded, k + 1, whites)
      ELSE WhitesFrom(shaded, k + 1, Append(whites, <<k % n, k \div n>>))

\* Variant: only the neighbours in the row are looked at.
WhiteNeighborsRowOnly(x, y) == << <<x - 1, y>>, <<x + 1, y>> >>

\* neighbors of isWhiteConnected, in its order.
WhiteNeighbors(x, y) == << <<x - 1, y>>, <<x + 1, y>>, <<x, y - 1>>, <<x, y + 1>> >>

\* A call passes its arguments by value: each is computed once, before the
\* body runs (ByValue binds the values, the Body operators are the loops).
RECURSIVE PushNeighbors(_, _, _, _, _)
RECURSIVE WhiteDfs(_, _, _)

\* The inner for loop: push every in-bounds white neighbour not yet visited.
PushNeighborsBody(shaded, neighbors, i, stack, visited) ==
  IF i > Len(neighbors) THEN stack
  ELSE LET nx == neighbors[i][1]
           ny == neighbors[i][2]
           n == Len(shaded)
       IN  IF /\ nx >= 0 /\ nx < n /\ ny >= 0 /\ ny < n
              /\ ~Black(shaded, nx, ny)
              /\ <<nx, ny>> \notin visited
           THEN PushNeighbors(shaded, neighbors, i + 1, Append(stack, <<nx, ny>>), visited)
           ELSE PushNeighbors(shaded, neighbors, i + 1, stack, visited)

PushNeighbors(shaded, neighbors, i, stack, visited) ==
  CHOOSE result \in
    {PushNeighborsBody(sh, ns, k, s, v) :
       sh \in {shaded}, ns \in {neighbors}, k \in {i}, s \in {stack}, v \in {visited}} : TRUE

\* The while loop: stack.pop(), skip if visited, else visit and push.
WhiteDfsBody(shaded, stack, visited) ==
  IF stack = <<>> THEN visited
  ELSE LET top == stack[Len(stack)]
           rest == SubSeq(stack, 1, Len(stack) - 1)
       IN  IF top \in visited THEN WhiteDfs(shaded, rest, visited)
           ELSE WhiteDfs(shaded,
                         PushNeighbors(shaded, WhiteNeighbors(top[1], top[2]), 1, rest,
                                       visited \cup {top}),
                         visited \cup {top})

WhiteDfs(shaded, stack, visited) ==
  CHOOSE result \in
    {WhiteDfsBody(sh, s, v) : sh \in {shaded}, s \in {stack}, v \in {visited}} : TRUE

\* Variant: visitedWhite is compared with the number of all cells.
isWhiteConnectedAllCells(shaded) ==
  LET whites == WhitesFrom(shaded, 0, <<>>)
      totalWhite == Len(whites)
  IN  IF totalWhite = 0 THEN FALSE
      ELSE Cardinality(WhiteDfs(shaded, <<whites[1]>>, {})) = Len(shaded) * Len(shaded)

isWhiteConnected(shaded) ==
  LET whites == WhitesFrom(shaded, 0, <<>>)
      totalWhite == Len(whites)
  IN  IF totalWhite = 0 THEN FALSE
      ELSE Cardinality(WhiteDfs(shaded, <<whites[1]>>, {})) = totalWhite

SetBlack(shaded, x, y, b) == [shaded EXCEPT ![y + 1][x + 1] = b]

\* candidates of buildNumbersFromSolution for the black cell (x, y): the
\* white cells of row y, then the white cells of column x.
\* Variant: every cell of the row is a candidate, black or white.
RECURSIVE RowCandidatesAnyCell(_, _, _, _)
RowCandidatesAnyCell(shaded, y, cx, candidates) ==
  IF cx >= Len(shaded) THEN candidates
  ELSE RowCandidatesAnyCell(shaded, y, cx + 1, Append(candidates, <<cx, y>>))

RECURSIVE RowCandidates(_, _, _, _)
RowCandidates(shaded, y, cx, candidates) ==
  IF cx >= Len(shaded) THEN candidates
  ELSE IF ~Black(shaded, cx, y)
  THEN RowCandidates(shaded, y, cx + 1, Append(candidates, <<cx, y>>))
  ELSE RowCandidates(shaded, y, cx + 1, candidates)

RECURSIVE ColCandidates(_, _, _, _)
ColCandidates(shaded, x, cy, candidates) ==
  IF cy >= Len(shaded) THEN candidates
  ELSE IF ~Black(shaded, x, cy)
  THEN ColCandidates(shaded, x, cy + 1, Append(candidates, <<x, cy>>))
  ELSE ColCandidates(shaded, x, cy + 1, candidates)

Candidates(shaded, x, y) ==
  ColCandidates(shaded, x, 0, RowCandidates(shaded, y, 0, <<>>))

\* The seen sets of isValidSolution: a line fails when a white value
\* repeats.
WhiteRepeatInRow(numbers, shaded, y) ==
  \E x1, x2 \in 0..(Len(numbers) - 1) :
    /\ x1 < x2
    /\ ~Black(shaded, x1, y) /\ ~Black(shaded, x2, y)
    /\ numbers[y + 1][x1 + 1] = numbers[y + 1][x2 + 1]

WhiteRepeatInColumn(numbers, shaded, x) ==
  \E y1, y2 \in 0..(Len(numbers) - 1) :
    /\ y1 < y2
    /\ ~Black(shaded, x, y1) /\ ~Black(shaded, x, y2)
    /\ numbers[y1 + 1][x + 1] = numbers[y2 + 1][x + 1]

isValidSolution(numbers, solutionShaded) ==
  /\ \A y \in 0..(Len(numbers) - 1) : ~WhiteRepeatInRow(numbers, solutionShaded, y)
  /\ \A x \in 0..(Len(numbers) - 1) : ~WhiteRepeatInColumn(numbers, solutionShaded, x)
  /\ ~violatesBlackAdjacency(solutionShaded)
  /\ isWhiteConnected(solutionShaded)

\* ================================================================ SpecGen
\* One call of generateHitoriPuzzleWithSolution, stopped at each random
\* choice.  shuffleInPlace makes every order of allCells possible and the
\* order is read one cell at a time, so the next cell of the shuffled
\* order is drawn when the loop reads it: any cell not yet read.

GenCells(size) == {<<x, y>> : x \in 0..(size - 1), y \in 0..(size - 1)}

InitGen ==
  /\ gen = IdleGen
  /\ heap = NoHeap
  /\ history = Idle
  /\ ghost = Idle
  /\ thrown = "none"
  /\ board = Idle
  /\ report = Idle

\* Variant: only sizes below 1 are refused.
InvalidSizeBelowOne(size) == size < 1

\* The guard of generateHitoriPuzzleWithSolution.
InvalidSize(size) == size < 2

\* The call, up to the loop of buildShadingPattern; the sizes run from
\* MaxShortfall below the smallest valid size up to MaxGenSize.
Generate ==
  /\ gen.pc = "idle"
  /\ \E size \in (2 - MaxShortfall)..MaxGenSize, difficulty \in Difficulties :
       IF InvalidSize(size)
       THEN gen' = [pc |-> "threw", error |-> "InvalidSize", size |-> size,
                    difficulty |-> difficulty]
       ELSE gen' = [pc |-> "shading", size |-> size, difficulty |-> difficulty,
                    latin |-> buildLatinSquare(size),
                    shaded |-> [y \in 1..size |-> [x \in 1..size |-> FALSE]],
                    targetBlacks |-> targetBlacks(size, difficulty),
                    blacks |-> 0,
                    read |-> {}]
  /\ UNCHANGED <<heap, history, ghost, thrown, board, report>>

\* One pass of the first loop of buildShadingPattern.
TryShade ==
  /\ gen.pc = "shading"
  /\ gen.blacks < gen.targetBlacks
  /\ \E cell \in GenCells(gen.size) \ gen.read :
       LET tried == SetBlack(gen.shaded, cell[1], cell[2], TRUE)
       IN  IF violatesBlackAdjacency(tried) \/ ~isWhiteConnected(tried)
           THEN gen' = [gen EXCEPT !.read = @ \cup {cell}]
           ELSE gen' = [gen EXCEPT !.read = @ \cup {cell}, !.shaded = tried,
                                   !.blacks = @ + 1]
  /\ UNCHANGED <<heap, history, ghost, thrown, board, report>>

\* The patterns the second loop of buildShadingPattern can leave: the
\* first cell of the shuffled order that can be shaded alone is shaded, or
\* none if no cell can.
EnsuredBlack(shaded, size) ==
  LET able == {cell \in GenCells(size) :
                 LET tried == SetBlack(shaded, cell[1], cell[2], TRUE)
                 IN  ~violatesBlackAdjacency(tried) /\ isWhiteConnected(tried)}
  IN  IF able = {} THEN {shaded}
      ELSE {SetBlack(shaded, cell[1], cell[2], TRUE) : cell \in able}

\* The first loop ends (target reached or every cell read); "ensure at
\* least one black cell"; buildNumbersFromSolution clones latin.
EndShading ==
  /\ gen.pc = "shading"
  /\ gen.blacks >= gen.targetBlacks \/ gen.read = GenCells(gen.size)
  /\ \E shaded \in (IF gen.blacks = 0 THEN EnsuredBlack(gen.shaded, gen.size)
                    ELSE {gen.shaded}) :
       gen' = [pc |-> "numbers", size |-> gen.size, difficulty |-> gen.difficulty,
               latin |-> gen.latin, shaded |-> shaded,
               numbers |-> gen.latin, k |-> 0]
  /\ UNCHANGED <<heap, history, ghost, thrown, board, report>>

\* One pass of the loops of buildNumbersFromSolution: cell k in row-major
\* order (y outer, x inner).
CopyNumber ==
  /\ gen.pc = "numbers"
  /\ gen.k < gen.size * gen.size
  /\ LET x == gen.k % gen.size
         y == gen.k \div gen.size
         candidates == Candidates(gen.shaded, x, y)
     IN  IF ~Black(gen.shaded, x, y) \/ Len(candidates) = 0
         THEN gen' = [gen EXCEPT !.k = @ + 1]
         ELSE \E i \in Idx(candidates) :
                gen' = [gen EXCEPT
                          !.k = @ + 1,
                          !.numbers[y + 1][x + 1] =
                             gen.numbers[candidates[i][2] + 1][candidates[i][1] + 1]]
  /\ UNCHANGED <<heap, history, ghost, thrown, board, report>>

\* The id buildRandomPuzzleId makes, without its timestamp and random
\* suffix (nothing reads them).
buildRandomPuzzleId(size, difficulty) == <<"hitori", size, size, difficulty>>

\* The safety check and the return.
ValidateSolution ==
  /\ gen.pc = "numbers"
  /\ gen.k = gen.size * gen.size
  /\ IF ~isValidSolution(gen.numbers, gen.shaded)
     THEN gen' = [pc |-> "threw", error |-> "InternalError", size |-> gen.size,
                  difficulty |-> gen.difficulty]
     ELSE gen' = [pc |-> "returned", size |-> gen.size, difficulty |-> gen.difficulty,
                  puzzle |-> [id |-> buildRandomPuzzleId(gen.size, gen.difficulty),
                              size |-> gen.size,
                              difficulty |-> gen.difficulty,
                              numbers |-> gen.numbers],
                  solutionShaded |-> gen.shaded]
  /\ UNCHANGED <<heap, history, ghost, thrown, board, report>>

\* generateHitoriPuzzle only forwards to generateHitoriPuzzleWithSolution:
\* what that call throws it throws, and of what that call returns it
\* returns the puzzle alone.
ReturnPuzzle ==
  /\ gen.pc = "returned"
  /\ gen' = [pc |-> "returnedPuzzle", size |-> gen.size, difficulty |-> gen.difficulty,
             puzzle |-> gen.puzzle]
  /\ UNCHANGED <<heap, history, ghost, thrown, board, report>>

NextGenerator ==
  Generate \/ TryShade \/ EndShading \/ CopyNumber \/ ValidateSolution \/ ReturnPuzzle

SpecGen == InitGen /\ [][NextGenerator]_vars

\* The call runs to its end: no step of it waits on anything.
SpecGenLive == InitGen /\ [][NextGenerator]_vars /\ WF_vars(NextGenerator)

\* ------------------------------------------------------- SpecPatterns
\* isWhiteConnected and checkConnectivityOfUnshaded, each called once on
\* the same shading pattern: any n x n matrix of booleans, n up to
\* MaxGenSize.  gen holds the pattern and the verdict of isWhiteConnected,
\* board the play state's grid with exactly the pattern's cells Shaded
\* (the other cells all Unmarked or all Kept), report the rule result.

Patterns == UNION {[1..n -> [1..n -> BOOLEAN]] : n \in 1..MaxGenSize}

PatternGrid(shaded, whiteState) ==
  LET grid == createGridFromNumbers(buildLatinSquare(Len(shaded)))
  IN  [grid EXCEPT !.cells =
         [r \in Idx(shaded) |-> [c \in Idx(shaded) |->
            [grid.cells[r][c] EXCEPT
               !.state = IF shaded[r][c] THEN Shaded ELSE whiteState]]]]

InitPatterns ==
  /\ \E shaded \in Patterns : gen = [pc |-> "pattern", shaded |-> shaded]
  /\ board = Idle
  /\ report = Idle
  /\ heap = NoHeap
  /\ history = Idle
  /\ ghost = Idle
  /\ thrown = "none"

CheckPattern ==
  /\ gen.pc = "pattern"
  /\ \E whiteState \in {Unmarked, Kept} :
       /\ board' = PatternGrid(gen.shaded, whiteState)
       /\ report' = checkConnectivityOfUnshaded(board')
  /\ gen' = [pc |-> "checked", shaded |-> gen.shaded,
             connected |-> isWhiteConnected(gen.shaded)]
  /\ UNCHANGED <<heap, history, ghost, thrown>>

NextPatterns == CheckPattern

SpecPatterns == InitPatterns /\ [][NextPatterns]_vars

\* ============================================================ claims

\* What the rule checks are meant to compute, stated on sets of positions
\* and without the loops of the source.
AllCells(grid) == {Pos(r, c) : r \in 0..(grid.size - 1), c \in 0..(grid.size - 1)}
IsShaded(grid, p) == CellAt(grid, p.row, p.col).state = Shaded
ValueAt(grid, p) == CellAt(grid, p.row, p.col).value
Orthogonal(p, q) ==
  \/ p.row = q.row /\ (p.col - q.col = 1 \/ q.col - p.col = 1)
  \/ p.col = q.col /\ (p.row - q.row = 1 \/ q.row - p.row = 1)
NonShaded(grid) == {p \in AllCells(grid) : ~IsShaded(grid, p)}
Range(seq) == {seq[i] : i \in Idx(seq)}
Fresh == report # Stale

\* ---- play states (Spec)

\* The chain's state at position i as a value read off the heap now, the
\* operation that made it, and the cell that operation named.
Now(i) == ValueOf(heap, Chain(history)[i])
Made(i) == ghost[i].op
Steps == 2..Len(Chain(history))
StateAt(value, row, col) == CellAt(value.grid, row, col).state

\* The original statement of C1: every setCellState that returns a state
\* adds one to moves, also when the cell already had the target state.
C1_EverySetCountsAsMove ==
  \A i \in Steps :
    Made(i).kind = "set" => Now(i).moves = Now(i - 1).moves + 1

\* C1 (amended): setCellState adds one to moves when the target state
\* differs from the cell's current state, and leaves moves as it was when
\* the cell already has the target state.
C1_MovesCountChanges ==
  \A i \in Steps :
    Made(i).kind = "set" =>
      Now(i).moves =
        IF StateAt(Now(i - 1), Made(i).row, Made(i).col) = Made(i).target
        THEN Now(i - 1).moves
        ELSE Now(i - 1).moves + 1

\* A set that changed a cell followed by a set of the same cell to the
\* state it then had.
C1_Witness ==
  /\ Len(Chain(history)) = 3
  /\ Made(2).kind = "set" /\ Made(3).kind = "set"
  /\ StateAt(Now(1), Made(2).row, Made(2).col) # Made(2).target
  /\ StateAt(Now(2), Made(3).row, Made(3).col) = Made(3).target
  /\ Now(3).moves = 1

\* C2: a play state that was returned is never changed by a later
\* operation: read off the heap now, every state the history holds has the
\* cell states, cell values, moves and clock it had when it was returned.
C2_ReturnedStatesNeverChange ==
  \A i \in Idx(Chain(history)) : Now(i) = ghost[i].value

\* Three different states are held, the present is the middle one (the last
\* change was undone) and a call has just thrown.
C2_Witness ==
  /\ Len(history.past) = 1 /\ Len(history.future) = 1
  /\ Now(1).grid # Now(2).grid /\ Now(2).grid # Now(3).grid
  /\ Made(3).kind = "set"
  /\ thrown = "OutOfBounds"

\* The row arrays and the cell objects a state's grid reaches.
RowRefsOf(state) == Range(state.grid.cells)
CellRefsOf(state) == UNION {Range(heap.rows[ref]) : ref \in RowRefsOf(state)}
Changing(i) ==
  /\ Made(i).kind \in {"set", "cycle"}
  /\ StateAt(Now(i), Made(i).row, Made(i).col) # StateAt(Now(i - 1), Made(i).row, Made(i).col)

\* The original statement of C3: after a call that changes a cell the new
\* state shares no row array and no cell object with the previous one.
C3_NothingShared ==
  \A i \in Steps :
    Changing(i) =>
      /\ RowRefsOf(Chain(history)[i]) \cap RowRefsOf(Chain(history)[i - 1]) = {}
      /\ CellRefsOf(Chain(history)[i]) \cap CellRefsOf(Chain(history)[i - 1]) = {}

\* C3 (amended): after a call that changes a cell, the row array of the
\* changed row and the cell object at the changed position are objects the
\* previous state does not reach; every other row array, and every other
\* cell object of the changed row, is the previous state's own object.
C3_OnlyChangedRowAndCellAreNew ==
  \A i \in Steps :
    Changing(i) =>
      LET new == Chain(history)[i]
          old == Chain(history)[i - 1]
          r == Made(i).row + 1
          c == Made(i).col + 1
      IN  /\ new.grid.cells[r] \notin RowRefsOf(old)
          /\ heap.rows[new.grid.cells[r]][c] \notin CellRefsOf(old)
          /\ \A k \in Idx(new.grid.cells) : k # r => new.grid.cells[k] = old.grid.cells[k]
          /\ \A k \in Idx(heap.rows[new.grid.cells[r]]) :
               k # c => heap.rows[new.grid.cells[r]][k] = heap.rows[old.grid.cells[r]][k]

\* A cell of the 2 x 2 grid was changed: the other row and the other cell
\* of the changed row are there to be shared.
C3_Witness ==
  /\ Len(Chain(history)) >= 2
  /\ Changing(2)
  /\ Now(2).grid.size = 2
  /\ Chain(history)[2].grid.cells[1] = Chain(history)[1].grid.cells[1]

\* C4: setCellState on an in-bounds position returns a state in which that
\* cell has the target state and every other cell the state it had; all
\* cell values, the grid size, the puzzle, startTime and elapsedMs are as
\* they were.
C4_SetChangesOneCellOnly ==
  \A i \in Steps :
    Made(i).kind = "set" =>
      LET new == Now(i)
          old == Now(i - 1)
      IN  /\ inBounds(old.grid, Made(i).row, Made(i).col)
          /\ StateAt(new, Made(i).row, Made(i).col) = Made(i).target
          /\ new.grid.size = old.grid.size
          /\ \A p \in AllCells(old.grid) :
               /\ CellAt(new.grid, p.row, p.col).value = CellAt(old.grid, p.row, p.col).value
               /\ CellAt(new.grid, p.row, p.col).row = CellAt(old.grid, p.row, p.col).row
               /\ CellAt(new.grid, p.row, p.col).col = CellAt(old.grid, p.row, p.col).col
               /\ p # Pos(Made(i).row, Made(i).col)
                    => StateAt(new, p.row, p.col) = StateAt(old, p.row, p.col)
          /\ new.grid = GridSetCell(old.grid, Made(i).row, Made(i).col, Made(i).target)
          /\ new.puzzle = old.puzzle
          /\ new.startTime = old.startTime
          /\ new.elapsedMs = old.elapsedMs

\* A state restored from a snapshot with a running clock, then a set that
\* changes an off-diagonal cell of the 2 x 2 grid.
C4_Witness ==
  /\ Len(Chain(history)) = 3
  /\ Made(2).kind = "deserialize" /\ Now(2).elapsedMs = 5 /\ Now(2).startTime = At(7)
  /\ Made(3).kind = "set" /\ Made(3).row = 0 /\ Made(3).col = 1
  /\ Now(3).grid # Now(2).grid

\* Three successive cycleCellState calls on one cell, from the present.
CycleFrom(H, state, row, col, g) ==
  LET res == cycleCellState(H, state, row, col, g)
  IN  [heap |-> Merge(H, res), state |-> res.state]

CycledThrice(row, col) ==
  LET one == CycleFrom(Collect(heap, NextGen - 1), history.present, row, col, NextGen)
      two == CycleFrom(one.heap, one.state, row, col, NextGen + 1)
      three == CycleFrom(two.heap, two.state, row, col, NextGen + 2)
  IN  ValueOf(three.heap, three.state)

\* C5: cycleCellState maps Unmarked to Shaded, Shaded to Kept and Kept to
\* Unmarked and adds one to moves; so three successive calls on one cell
\* return the cell to the state it had and add exactly 3 to moves.
C5_CycleOfLengthThree ==
  /\ \A i \in Steps :
       Made(i).kind = "cycle" =>
         LET before == StateAt(Now(i - 1), Made(i).row, Made(i).col)
             after == StateAt(Now(i), Made(i).row, Made(i).col)
         IN  /\ before = Unmarked => after = Shaded
             /\ before = Shaded => after = Kept
             /\ before = Kept => after = Unmarked
             /\ Now(i).moves = Now(i - 1).moves + 1
  /\ \A i \in Steps :
       (/\ i + 2 <= Len(Chain(history))
        /\ \A k \in i..(i + 2) :
             Made(k).kind = "cycle" /\ Made(k).row = Made(i).row /\ Made(k).col = Made(i).col)
       => /\ StateAt(Now(i + 2), Made(i).row, Made(i).col)
               = StateAt(Now(i - 1), Made(i).row, Made(i).col)
          /\ Now(i + 2).moves = Now(i - 1).moves + 3
  /\ \A p \in AllCells(Now(Len(history.past) + 1).grid) :
       LET start == Now(Len(history.past) + 1)
           end == CycledThrice(p.row, p.col)
       IN  /\ end.grid = start.grid
           /\ end.moves = start.moves + 3

\* Two cycles of one cell have been made, leaving it Kept: the third brings
\* it back to Unmarked.
C5_Witness ==
  /\ Len(Chain(history)) = 3 /\ Len(history.future) = 0
  /\ Made(2).kind = "cycle" /\ Made(3).kind = "cycle"
  /\ Made(2).row = Made(3).row /\ Made(2).col = Made(3).col
  /\ StateAt(Now(3), Made(3).row, Made(3).col) = Kept
  /\ Now(3).moves = 2

\* What deserializeState makes of the snapshot serializeState takes of the
\* state at position i: whether it threw, and the play state as a value.
RoundTrip(i) ==
  LET state == Chain(history)[i]
      res == deserializeState(state.puzzle, serializeState(heap, state), MaxStates + 1)
  IN  [thrown |-> res.thrown,
       value  |-> IF res.thrown # "none" THEN Null
                  ELSE ValueOf(Merge(heap, res), res.state)]

\* C12: for every play state reached by setCellState and cycleCellState
\* calls (and restores, undos and redos), deserializeState of the state's
\* puzzle and serializeState of the state returns a play state with the same
\* matrix of cell states, the same cell values, moves, elapsedMs and
\* startTime. (Checked where a call can be made: no error is in flight.)
C12_SerializeRoundTrip ==
  thrown = "none" => \A i \in Idx(Chain(history)) :
    /\ RoundTrip(i).thrown = "none"
    /\ LET old == Now(i)
           new == RoundTrip(i).value
       IN  /\ new.grid.size = old.grid.size
           /\ \A p \in AllCells(old.grid) :
                /\ StateAt(new, p.row, p.col) = StateAt(old, p.row, p.col)
                /\ CellAt(new.grid, p.row, p.col).value = CellAt(old.grid, p.row, p.col).value
           /\ new.moves = old.moves
           /\ new.elapsedMs = old.elapsedMs
           /\ new.startTime = old.startTime
           /\ new.puzzle = old.puzzle

\* After a move that changed a cell the state was restored from a snapshot
\* with a running clock; the round trip of the restored state returns it.
C12_Witness ==
  /\ Len(Chain(history)) = 3 /\ Len(history.future) = 0
  /\ Changing(2)
  /\ Made(3).kind = "deserialize"
  /\ Now(3).moves = 1 /\ Now(3).grid = Now(2).grid
  /\ Now(3).elapsedMs = 5 /\ Now(3).startTime = At(7)
  /\ RoundTrip(3).thrown = "none" /\ RoundTrip(3).value = Now(3)

\* The three ways a snapshot fails to fit a puzzle.
SnapshotMismatch(puzzle, serialized) ==
  \/ serialized.puzzleId # puzzle.id
  \/ serialized.size # puzzle.size
  \/ Len(serialized.cellStates) # puzzle.size
  \/ \E r \in Idx(serialized.cellStates) : Len(serialized.cellStates[r]) # puzzle.size

\* C13: deserializeState throws, and returns no play state, whenever the
\* snapshot's puzzleId is not the puzzle's id, its size is not the puzzle's
\* size, or its cellStates is not puzzle.size rows of puzzle.size entries;
\* so a call that returns a play state had none of the three. (Checked
\* where a call can be made: no error is in flight.)
C13_DeserializeRejectsMismatch ==
  thrown = "none" => \A puzzle \in CallerPuzzles, serialized \in Snapshots \cup DamagedSnapshots :
    LET res == deserializeState(puzzle, serialized, MaxStates + 1)
    IN  /\ SnapshotMismatch(puzzle, serialized) =>
             /\ res.thrown # "none"
             /\ res.state = Null
        /\ res.thrown = "none" => ~SnapshotMismatch(puzzle, serialized)

\* A restore has just thrown on a matrix of the wrong dimensions, in a
\* history that holds a state an earlier restore returned.
C13_Witness ==
  /\ thrown = "DimensionMismatch"
  /\ Len(Chain(history)) >= 2
  /\ Made(2).kind = "deserialize"

\* The positions with a row or a column outside [0, size) of the present
\* grid, up to two steps beyond each edge.
OutsidePositions ==
  LET size == history.present.grid.size
  IN  {p \in {Pos(r, c) : r \in (-2)..(size + 1), c \in (-2)..(size + 1)} :
         p.row < 0 \/ p.row >= size \/ p.col < 0 \/ p.col >= size}

\* C14: for every position with a row or a column outside [0, size),
\* getCell, setCellState (with any target state) and cycleCellState throw
\* the out-of-bounds error, return no state and allocate nothing; and the
\* step in which a call throws it leaves every object and the history as
\* they were.
C14_OutOfBoundsThrows ==
  /\ [](thrown = "none" => \A p \in OutsidePositions :
          /\ getCellThrows(history.present, p.row, p.col)
          /\ \A newState \in CellStates :
               LET res == setCellState(heap, history.present, p.row, p.col, newState, NextGen)
               IN  res.thrown = "OutOfBounds" /\ res.state = Null
                     /\ res.rows = <<>> /\ res.cells = <<>>
          /\ LET res == cycleCellState(heap, history.present, p.row, p.col, NextGen)
             IN  res.thrown = "OutOfBounds" /\ res.state = Null
                   /\ res.rows = <<>> /\ res.cells = <<>>)
  /\ [][thrown' = "OutOfBounds" =>
          /\ heap' = heap /\ history' = history /\ ghost' = ghost
          /\ \A i \in Idx(Chain(history)) : ValueOf(heap', Chain(history)[i]) = Now(i)]_vars

\* A cell was cycled and then a call threw the out-of-bounds error; the
\* present is the state the cycle returned.
C14_Witness ==
  /\ thrown = "OutOfBounds"
  /\ Len(Chain(history)) = 2 /\ Len(history.future) = 0
  /\ Made(2).kind = "cycle"
  /\ Now(2).moves = 1

\* C21: every step in which a call returns a state x (a set, a cycle or a
\* restore: the caller's applyAction(h, x)) leaves a history whose past is
\* h.past followed by h.present, whose present is x (the newest state) and
\* whose future is empty, whatever h.future held.
C21_ApplyActionDropsFuture ==
  [][((SetCellState \/ CycleCellState \/ Deserialize) /\ thrown' = "none") =>
        /\ history'.past = history.past \o <<history.present>>
        /\ history'.future = <<>>
        /\ ValueOf(heap', history'.present) = ghost'[Len(ghost')].value
        /\ Len(ghost') = Len(history'.past) + 1
        /\ history' = applyAction(history, history'.present)]_vars

\* The last change was undone (one state behind, one ahead) and a call that
\* returns a state can be made: applied, it leaves no future.
C21_Witness ==
  /\ thrown = "none"
  /\ Len(history.past) = 1 /\ Len(history.future) = 1
  /\ NextGen <= MaxStates
  /\ LET res == cycleCellState(heap, history.present, 0, 0, NextGen)
     IN  /\ res.thrown = "none"
         /\ applyAction(history, res.state).future = <<>>
         /\ Len(applyAction(history, res.state).past) = 2

\* C22: undo on an empty past and redo on an empty future return the
\* history as it is; with a non-empty past redo(undo(h)) has the past,
\* present and future of h, and with a non-empty future undo(redo(h)) has.
C22_UndoRedoInverse ==
  LET h == history
  IN  /\ Len(h.past) = 0 => undo(h) = h
      /\ Len(h.future) = 0 => redo(h) = h
      /\ Len(h.past) > 0 =>
           /\ undo(h) # h
           /\ redo(undo(h)).past = h.past
           /\ redo(undo(h)).present = h.present
           /\ redo(undo(h)).future = h.future
      /\ Len(h.future) > 0 =>
           /\ redo(h) # h
           /\ undo(redo(h)).past = h.past
           /\ undo(redo(h)).present = h.present
           /\ undo(redo(h)).future = h.future

\* One undo after two changes: a state behind and a state ahead, so both
\* round trips move the present and bring it back.
C22_Witness ==
  /\ thrown = "none"
  /\ Len(history.past) = 1 /\ Len(history.future) = 1
  /\ Made(2).kind = "set" /\ Made(3).kind = "cycle"
  /\ undo(history).present # history.present
  /\ redo(history).present # history.present
  /\ redo(undo(history)) = history /\ undo(redo(history)) = history

\* The cell objects of a state, each carrying its own place and the
\* puzzle's number there.
CellsInPlace(H, state) ==
  LET cells == CellsOf(H, state)
  IN  /\ Len(cells) = state.puzzle.size
      /\ \A r \in Idx(cells) :
           /\ Len(cells[r]) = state.puzzle.size
           /\ \A c \in Idx(cells[r]) :
                /\ cells[r][c].row = r - 1
                /\ cells[r][c].col = c - 1
                /\ cells[r][c].value = state.puzzle.numbers[r][c]
                /\ cells[r][c].state \in CellStates

\* Two states differ, cell by cell, in the state field only.
SameButStates(H, s, t) ==
  LET a == CellsOf(H, s)
      b == CellsOf(H, t)
  IN  /\ s.puzzle = t.puzzle
      /\ s.grid.size = t.grid.size
      /\ Len(a) = Len(b)
      /\ \A r \in Idx(a) :
           /\ Len(a[r]) = Len(b[r])
           /\ \A c \in Idx(a[r]) : [a[r][c] EXCEPT !.state = b[r][c].state] = b[r][c]

\* C28: in every play state made by createInitialState or deserializeState
\* and any sequence of setCellState / cycleCellState, the cell at (r, c)
\* has row r, col c and value puzzle.numbers[r][c]; any two such states
\* differ in the state fields of their cells only.
C28_CellsKeepPlaceAndValue ==
  thrown = "none" =>
    /\ \A i \in Idx(Chain(history)) : CellsInPlace(heap, Chain(history)[i])
    /\ \A i, j \in Idx(Chain(history)) :
         SameButStates(heap, Chain(history)[i], Chain(history)[j])

\* On the 2 x 2 puzzle a state was restored from a snapshot and then a
\* cell of the second row was set: the three states held differ in cell
\* states, and the present has a cell that is not Unmarked.
C28_Witness ==
  /\ thrown = "none"
  /\ history.present.puzzle.size = 2
  /\ Len(history.past) = 2
  /\ Made(2).kind = "deserialize" /\ Made(3).kind = "set" /\ Made(3).row = 1
  /\ CellsOf(heap, history.present)[2][Made(3).col + 1].state # Unmarked
  /\ CellsOf(heap, history.present)[2][Made(3).col + 1].value = 2
  /\ CellsOf(heap, history.present) # CellsOf(heap, history.past[2])

\* ---- createGridFromNumbers (SpecGrid)

\* C15: createGridFromNumbers throws, and returns no grid, when numbers has
\* no rows or some row's length is not the number of rows; on every other
\* input it returns a grid whose size is the number of rows, with size rows
\* of size cells, the cell at (r, c) being Unmarked with row r, col c and
\* value numbers[r][c].
C15_GridFromNumbers ==
  ghost[1].done =>
    LET numbers == ghost[1].numbers
        size == Len(numbers)
    IN  IF size = 0 \/ \E r \in 1..size : Len(numbers[r]) # size
        THEN thrown = "MalformedLayout" /\ board = Idle
        ELSE /\ thrown = "none"
             /\ board.size = size
             /\ Len(board.cells) = size
             /\ \A r \in 1..size :
                  /\ Len(board.cells[r]) = size
                  /\ \A c \in 1..size :
                       board.cells[r][c] = [row |-> r - 1, col |-> c - 1,
                                            value |-> numbers[r][c],
                                            state |-> Unmarked]

\* The call has thrown on two rows of which only the second is short.
C15_Witness ==
  /\ ghost[1].done
  /\ thrown = "MalformedLayout"
  /\ Len(ghost[1].numbers) = 2
  /\ Len(ghost[1].numbers[1]) = 2 /\ Len(ghost[1].numbers[2]) = 1

\* ---- rule checks (SpecRules)

\* The groups of more than one non-Shaded cell that share a line and a
\* value, each as the violation it is to be reported as.
ExpectedDuplicates(grid) ==
  LET U == NonShaded(grid)
      rowGroup(p) == {q \in U : q.row = p.row /\ ValueAt(grid, q) = ValueAt(grid, p)}
      colGroup(p) == {q \in U : q.col = p.col /\ ValueAt(grid, q) = ValueAt(grid, p)}
  IN  {[kind |-> "row-duplicate", index |-> p.row, value |-> ValueAt(grid, p),
        cells |-> rowGroup(p)] : p \in {x \in U : Cardinality(rowGroup(x)) > 1}}
      \cup
      {[kind |-> "column-duplicate", index |-> p.col, value |-> ValueAt(grid, p),
        cells |-> colGroup(p)] : p \in {x \in U : Cardinality(colGroup(x)) > 1}}

\* A violation list with each cells list taken as a set.
AsSets(violations) ==
  {[kind  |-> violations[i].kind, index |-> violations[i].index,
    value |-> violations[i].value, cells |-> Range(violations[i].cells)] :
      i \in Idx(violations)}

\* C6: isSolved of checkAllRules is true exactly when the three checks,
\* each run on the same grid, all report ok.
C6_IsSolvedIsConjunction ==
  Fresh =>
    LET uniqueness == checkRowColumnUniqueness(board)
        adjacency == checkNoAdjacentShaded(board)
        connectivity == checkConnectivityOfUnshaded(board)
    IN  /\ report.isSolved = (uniqueness.ok /\ adjacency.ok /\ connectivity.ok)
        /\ report.rowColumnUniqueness = uniqueness
        /\ report.noAdjacentShaded = adjacency
        /\ report.connectivity = connectivity

\* A solved board that needed shading, and the report of it.
C6_Witness ==
  /\ Fresh
  /\ report.isSolved = TRUE
  /\ \E p \in AllCells(board) : IsShaded(board, p)
  /\ \E p, q \in AllCells(board) :
       p # q /\ p.row = q.row /\ ValueAt(board, p) = ValueAt(board, q)

\* C7: checkRowColumnUniqueness is ok exactly when no line holds two
\* non-Shaded cells of one value; it reports one violation for each (row,
\* value) and each (column, value) group of more than one non-Shaded cell,
\* with the line's index, the value and every member once; no Shaded cell
\* is ever listed.
C7_UniquenessReport ==
  Fresh =>
    LET res == report.rowColumnUniqueness
        expected == ExpectedDuplicates(board)
    IN  /\ AsSets(res.violations) = expected
        /\ Len(res.violations) = Cardinality(expected)
        /\ \A i \in Idx(res.violations) :
             /\ Len(res.violations[i].cells) = Cardinality(Range(res.violations[i].cells))
             /\ \A p \in Range(res.violations[i].cells) : ~IsShaded(board, p)
        /\ res.ok =
             (\A p, q \in NonShaded(board) :
                (p # q /\ (p.row = q.row \/ p.col = q.col))
                  => ValueAt(board, p) # ValueAt(board, q))

\* A report with a row group and a column group on a board where a Shaded
\* cell holds the value of a non-Shaded cell of its row, and is left out.
C7_Witness ==
  /\ Fresh
  /\ \E i, j \in Idx(report.rowColumnUniqueness.violations) :
       /\ report.rowColumnUniqueness.violations[i].kind = "row-duplicate"
       /\ report.rowColumnUniqueness.violations[j].kind = "column-duplicate"
  /\ \E p, q \in AllCells(board) :
       /\ IsShaded(board, p) /\ ~IsShaded(board, q)
       /\ p.row = q.row /\ ValueAt(board, p) = ValueAt(board, q)
       /\ \A i \in Idx(report.rowColumnUniqueness.violations) :
            \A k \in Idx(report.rowColumnUniqueness.violations[i].cells) :
              report.rowColumnUniqueness.violations[i].cells[k] # p

\* The unordered pairs of orthogonally adjacent cells that are both Shaded.
ShadedPairs(grid) ==
  {pair \in {{p, q} : p, q \in {x \in AllCells(grid) : IsShaded(grid, x)}} :
     \E p, q \in pair : Orthogonal(p, q)}

\* C8: checkNoAdjacentShaded reports exactly one violation, listing the two
\* positions, for each unordered pair of orthogonally adjacent Shaded cells
\* and nothing else; ok is true exactly when there is no such pair.
C8_AdjacentReport ==
  Fresh =>
    LET res == report.noAdjacentShaded
    IN  /\ \A i \in Idx(res.violations) :
             /\ res.violations[i].kind = "adjacent-shaded"
             /\ Len(res.violations[i].cells) = 2
        /\ {Range(res.violations[i].cells) : i \in Idx(res.violations)} = ShadedPairs(board)
        /\ Len(res.violations) = Cardinality(ShadedPairs(board))
        /\ res.ok = (ShadedPairs(board) = {})

\* Three Shaded cells in an L: two adjacent pairs that share a cell, and a
\* diagonal pair that is no violation.
C8_Witness ==
  /\ Fresh
  /\ Len(report.noAdjacentShaded.violations) = 2
  /\ \E p, q \in AllCells(board) :
       /\ IsShaded(board, p) /\ IsShaded(board, q)
       /\ (p.row - q.row) * (p.row - q.row) = 1
       /\ (p.col - q.col) * (p.col - q.col) = 1

\* The non-Shaded cells reachable from the cells of S by 4-neighbour steps
\* through non-Shaded cells.
RECURSIVE Reach(_, _)
Reach(grid, S) ==
  LET T == S \cup {q \in NonShaded(grid) : \E p \in S : Orthogonal(p, q)}
  IN  IF T = S THEN S ELSE Reach(grid, T)

RowMajorBefore(p, q) == p.row < q.row \/ (p.row = q.row /\ p.col <= q.col)
FirstOf(S) == CHOOSE p \in S : \A q \in S : RowMajorBefore(p, q)
LastOf(S) == CHOOSE p \in S : \A q \in S : RowMajorBefore(q, p)

\* C9: checkConnectivityOfUnshaded is ok when at most one cell is
\* non-Shaded or the non-Shaded cells are one 4-connected component;
\* otherwise it reports exactly one violation, whose cells are the
\* non-Shaded cells not reachable from the first non-Shaded cell in
\* row-major order.
C9_ConnectivityReport ==
  Fresh =>
    LET res == report.connectivity
        U == NonShaded(board)
        connected == Cardinality(U) <= 1 \/ Reach(board, {LastOf(U)}) = U
    IN  /\ res.ok = connected
        /\ connected => res.violations = <<>>
        /\ ~connected =>
             /\ Len(res.violations) = 1
             /\ res.violations[1].kind = "connectivity"
             /\ Range(res.violations[1].cells) = U \ Reach(board, {FirstOf(U)})
             /\ Len(res.violations[1].cells) = Cardinality(U \ Reach(board, {FirstOf(U)}))

\* The 3 x 3 board with its middle column Shaded: the three cells of the
\* right column are reported unreached.
C9_Witness ==
  /\ Fresh
  /\ board.size = 3
  /\ \A p \in AllCells(board) : IsShaded(board, p) = (p.col = 1)
  /\ ~report.connectivity.ok
  /\ Range(report.connectivity.violations[1].cells) = {Pos(0, 2), Pos(1, 2), Pos(2, 2)}

\* The board with every cell in state from put in state to.
Remarked(grid, from, to) ==
  [grid EXCEPT !.cells = [r \in Idx(grid.cells) |-> [c \in Idx(grid.cells[r]) |->
     IF grid.cells[r][c].state = from
     THEN [grid.cells[r][c] EXCEPT !.state = to]
     ELSE grid.cells[r][c]]]]

\* C20: Kept is advisory. The report of the three checks and isSolved on a
\* board is the report on the same board with every Kept cell Unmarked; so
\* any two boards with the same Shaded cells (every marking is reached),
\* which differ by a set of cells changed between Unmarked and Kept, have
\* the report of one and the same board: the same ok flags, the same
\* violation lists and the same isSolved.
C20_KeptIsAdvisory ==
  Fresh =>
    report = checkAllRules(Remarked(board, Kept, Unmarked))

\* A board with a Kept, an Unmarked and a Shaded cell was checked, and the
\* report lists a duplicate that has a Kept member and an Unmarked member.
C20_Witness ==
  /\ Fresh
  /\ \E p \in AllCells(board) : IsShaded(board, p)
  /\ \E k \in Idx(report.rowColumnUniqueness.violations) :
       LET cells == Range(report.rowColumnUniqueness.violations[k].cells)
       IN  /\ \E p \in cells : CellAt(board, p.row, p.col).state = Kept
           /\ \E p \in cells : CellAt(board, p.row, p.col).state = Unmarked

\* ---- generator (SpecGen)

\* The play state's grid built from numbers with exactly the cells of the
\* solution shading Shaded.
SolutionGrid(numbers, solutionShaded) ==
  LET grid == createGridFromNumbers(numbers)
  IN  [grid EXCEPT !.cells =
         [r \in Idx(numbers) |-> [c \in Idx(numbers) |->
            [grid.cells[r][c] EXCEPT
               !.state = IF solutionShaded[r][c] THEN Shaded ELSE Unmarked]]]]

\* C10: a puzzle and solution the generator returns pass the three rule
\* checks when exactly the solution's cells are Shaded, whatever the random
\* choices were, and the generator's own check never fails: the internal
\* error is never raised.
C10_GeneratedSolutionPassesChecks ==
  /\ gen.pc = "threw" => gen.error # "InternalError"
  /\ (gen.pc = "numbers" /\ gen.k = gen.size * gen.size)
       => isValidSolution(gen.numbers, gen.shaded)
  /\ gen.pc = "returned" =>
       LET result == checkAllRules(SolutionGrid(gen.puzzle.numbers, gen.solutionShaded))
       IN  /\ gen.size >= 2
           /\ result.rowColumnUniqueness.ok
           /\ result.noAdjacentShaded.ok
           /\ result.connectivity.ok
           /\ result.isSolved

\* A hard 3 x 3 puzzle was returned with three or more cells shaded, one of
\* them carrying a number copied over its Latin value.
C10_Witness ==
  /\ gen.pc = "returned"
  /\ gen.size = 3 /\ gen.difficulty = "hard"
  /\ Cardinality({cell \in GenCells(3) : Black(gen.solutionShaded, cell[1], cell[2])}) >= 3
  /\ gen.puzzle.numbers # buildLatinSquare(3)

\* C11: for every size n >= 2 and each difficulty the call ends, whatever
\* the random choices, by returning a puzzle whose numbers grid is n x n
\* with a solution shading of n x n entries of which at least one is
\* shaded.
C11_GeneratorTerminatesWithBlack ==
  /\ <>(gen.pc = "returned" \/ (gen.pc = "threw" /\ gen.size < 2))
  /\ [](gen.pc = "returned" =>
          /\ gen.size >= 2
          /\ gen.difficulty \in Difficulties
          /\ gen.puzzle.size = gen.size
          /\ Len(gen.puzzle.numbers) = gen.size
          /\ \A y \in Idx(gen.puzzle.numbers) : Len(gen.puzzle.numbers[y]) = gen.size
          /\ Len(gen.solutionShaded) = gen.size
          /\ \A y \in Idx(gen.solutionShaded) : Len(gen.solutionShaded[y]) = gen.size
          /\ \E cell \in GenCells(gen.size) : Black(gen.solutionShaded, cell[1], cell[2]))

\* A 2 x 2 puzzle was returned for difficulty hard: the target of two
\* shaded cells cannot be met, one cell is shaded.
C11_Witness ==
  /\ gen.pc = "returned"
  /\ gen.size = 2 /\ gen.difficulty = "hard"
  /\ Cardinality({cell \in GenCells(2) : Black(gen.solutionShaded, cell[1], cell[2])}) = 1

\* C16: for every size below 2 and each difficulty, generateHitoriPuzzle and
\* generateHitoriPuzzleWithSolution throw the invalid-size error before any
\* other step: the call holds no puzzle and no solution, nothing follows the
\* throw, and whatever either call returns has a size of 2 or more.
C16_InvalidSizeThrows ==
  /\ [](gen.pc # "idle" =>
          /\ gen.size < 2 =>
               /\ gen.pc = "threw" /\ gen.error = "InvalidSize"
               /\ DOMAIN gen = {"pc", "error", "size", "difficulty"}
          /\ gen.pc \in {"returned", "returnedPuzzle"} => gen.size >= 2)
  /\ [][gen.pc = "threw" => gen' = gen]_vars

\* The call has thrown on size 0.
C16_Witness ==
  /\ gen.pc = "threw" /\ gen.error = "InvalidSize"
  /\ gen.size = 0 /\ gen.difficulty = "medium"

\* The white cells of the row and of the column of (x, y).
WhiteInLine(shaded, x, y) ==
  {cell \in GenCells(Len(shaded)) :
     (cell[1] = x \/ cell[2] = y) /\ ~Black(shaded, cell[1], cell[2])}

NumberAt(numbers, cell) == numbers[cell[2] + 1][cell[1] + 1]

LatinValue(cell, n) == ((cell[1] + cell[2]) % n) + 1

\* What C25 says of a numbers grid as far as cell k of the copying loop.
CopiedSoFar(numbers, shaded, k) ==
  \A cell \in GenCells(Len(shaded)) :
    IF Black(shaded, cell[1], cell[2])
    THEN /\ WhiteInLine(shaded, cell[1], cell[2]) # {}
         /\ cell[2] * Len(shaded) + cell[1] < k =>
              \E white \in WhiteInLine(shaded, cell[1], cell[2]) :
                NumberAt(numbers, white) = NumberAt(numbers, cell)
    ELSE NumberAt(numbers, cell) = LatinValue(cell, Len(shaded))

\* C25: in every generated puzzle each solution-shaded cell carries the
\* number of a non-shaded cell of its row or column and every non-shaded
\* cell keeps its Latin value ((x + y) mod n) + 1; while the numbers are
\* copied every shaded cell has a non-shaded candidate, and each cell the
\* loop has passed already carries such a number.
C25_ShadedCarryWhiteNumber ==
  /\ gen.pc = "numbers" => CopiedSoFar(gen.numbers, gen.shaded, gen.k)
  /\ gen.pc = "returned" =>
       CopiedSoFar(gen.puzzle.numbers, gen.solutionShaded, gen.size * gen.size)

\* A 3 x 3 puzzle is returned with two shaded cells, one of which carries
\* the number of a non-shaded cell of its column that no cell of its row has
\* in the Latin square at that place.
C25_Witness ==
  /\ gen.pc = "returned"
  /\ gen.size = 3
  /\ Cardinality({cell \in GenCells(3) : Black(gen.solutionShaded, cell[1], cell[2])}) = 2
  /\ \E cell \in GenCells(3), white \in GenCells(3) :
       /\ Black(gen.solutionShaded, cell[1], cell[2])
       /\ ~Black(gen.solutionShaded, white[1], white[2])
       /\ white[1] = cell[1] /\ white[2] # cell[2]
       /\ NumberAt(gen.puzzle.numbers, cell) = NumberAt(gen.puzzle.numbers, white)
       /\ NumberAt(gen.puzzle.numbers, cell) # LatinValue(cell, 3)

\* The ratios as the claim gives them, in hundredths.
StatedRatio(difficulty) ==
  IF difficulty = "easy" THEN 20 ELSE IF difficulty = "medium" THEN 30 ELSE 40

NumBlack(shaded) ==
  Cardinality({cell \in GenCells(Len(shaded)) : Black(shaded, cell[1], cell[2])})

\* count <= round(n * n * ratio), the rounding being to the nearest integer.
WithinTarget(shaded, difficulty) ==
  100 * NumBlack(shaded) <= Len(shaded) * Len(shaded) * StatedRatio(difficulty) + 50

\* No two adjacent shaded cells and one component of non-shaded cells, as
\* the rule checks see the pattern.
PatternObeysRules(shaded) ==
  LET grid == SolutionGrid(buildLatinSquare(Len(shaded)), shaded)
  IN  /\ checkNoAdjacentShaded(grid).ok
      /\ checkConnectivityOfUnshaded(grid).ok
      /\ NumBlack(shaded) < Len(shaded) * Len(shaded)

\* C27: the shading search never has more than round(n * n * ratio) cells
\* shaded (ratio 0.20 easy, 0.30 medium, 0.40 hard), and after every
\* candidate, accepted or reverted, and in the pattern it ends with, no two
\* shaded cells are orthogonally adjacent and the non-shaded cells form a
\* single connected component.
C27_ShadingWithinTargetAndValid ==
  /\ gen.pc = "shading" =>
       /\ gen.blacks = NumBlack(gen.shaded)
       /\ WithinTarget(gen.shaded, gen.difficulty)
       /\ PatternObeysRules(gen.shaded)
  /\ gen.pc = "numbers" =>
       /\ WithinTarget(gen.shaded, gen.difficulty)
       /\ PatternObeysRules(gen.shaded)
  /\ gen.pc = "returned" =>
       /\ WithinTarget(gen.solutionShaded, gen.difficulty)
       /\ PatternObeysRules(gen.solutionShaded)

\* A hard 3 x 3 search has shaded the four corners, the target of
\* round(3.6) = 4, after reverting at least one candidate.
C27_Witness ==
  /\ gen.pc = "shading"
  /\ gen.size = 3 /\ gen.difficulty = "hard"
  /\ gen.blacks = 4
  /\ \A cell \in GenCells(3) :
       Black(gen.shaded, cell[1], cell[2]) <=> (cell[1] # 1 /\ cell[2] # 1)
  /\ Cardinality(gen.read) > 4

\* ---- hints (SpecHints)

\* The members of a set of line indices in scan order.
InScanOrder(S) ==
  [i \in 1..Cardinality(S) |-> CHOOSE c \in S : Cardinality({d \in S : d < c}) = i - 1]

\* The cells of row r, and of column c, that carry value v, of every state,
\* in scan order.
RowGroup(grid, r, v) ==
  LET cols == InScanOrder({c \in 0..(grid.size - 1) : CellAt(grid, r, c).value = v})
  IN  [i \in Idx(cols) |-> GroupCell(r, cols[i], CellAt(grid, r, cols[i]).state)]
ColGroup(grid, c, v) ==
  LET rows == InScanOrder({r \in 0..(grid.size - 1) : CellAt(grid, r, c).value = v})
  IN  [i \in Idx(rows) |-> GroupCell(rows[i], c, CellAt(grid, rows[i], c).state)]

\* The groups of two or more same-valued cells of one row or one column:
\* the row group and the column group of every cell's value.
LineGroups(grid) ==
  {g \in {RowGroup(grid, p.row, CellAt(grid, p.row, p.col).value) : p \in AllCells(grid)}
           \cup {ColGroup(grid, p.col, CellAt(grid, p.row, p.col).value) : p \in AllCells(grid)} :
     Len(g) >= 2}

\* What the duplicate-resolution strategy is to propose for one group.
ProposedFor(g) ==
  LET kept == {i \in Idx(g) : g[i].state = Kept}
      unmarked == {i \in Idx(g) : g[i].state = Unmarked}
      shaded == {i \in Idx(g) : g[i].state = Shaded}
      others == {i \in Idx(g) : i \notin kept /\ g[i].state # Shaded}
  IN  IF Cardinality(kept) = 1 /\ others # {}
      THEN LET i == CHOOSE i \in others : \A j \in others : i <= j
           IN  Hint(g[i].row, g[i].col, Shaded, "duplicate-resolution")
      ELSE IF kept = {} /\ Cardinality(unmarked) = 1 /\ shaded = Idx(g) \ unmarked
      THEN LET i == CHOOSE i \in unmarked : TRUE
           IN  Hint(g[i].row, g[i].col, Kept, "duplicate-resolution")
      ELSE NoHint

\* Some group has a pattern the duplicate-resolution strategy matches; two
\* orthogonally adjacent cells are both Shaded.
HasDuplicatePattern(grid) == \E g \in LineGroups(grid) : ProposedFor(g) # NoHint
HasAdjacentShaded(grid) ==
  \E p \in AllCells(grid), q \in AllCells(grid) :
    /\ IsShaded(grid, p) /\ IsShaded(grid, q)
    /\ (p.row = q.row /\ p.col + 1 = q.col) \/ (p.col = q.col /\ p.row + 1 = q.row)

\* C17: when the board has both a pattern the duplicate-resolution strategy
\* matches and two orthogonally adjacent Shaded cells, the hint findHint
\* returned has reason 'duplicate-resolution'; a hint with reason
\* 'adjacent-shaded' was returned only for a board on which the
\* duplicate-resolution strategy finds nothing in any row or column.
C17_DuplicateResolutionFirst ==
  report # Stale =>
    /\ (HasDuplicatePattern(board) /\ HasAdjacentShaded(board)) =>
         /\ report.hint # NoHint
         /\ report.hint[1].reason = "duplicate-resolution"
    /\ (report.hint # NoHint /\ report.hint[1].reason = "adjacent-shaded") =>
         /\ findDuplicateResolutionHint(board) = NoHint
         /\ ~HasDuplicatePattern(board)

\* The board of the priority test (Kept, Unmarked, Shaded over Unmarked,
\* Shaded, Shaded) was asked for a hint, and the hint is to shade (0, 1).
C17_Witness ==
  /\ report # Stale
  /\ board.size = 3
  /\ CellAt(board, 0, 0).value = 5 /\ CellAt(board, 0, 1).value = 5
  /\ CellAt(board, 0, 2).value = 0
  /\ StateAt([grid |-> board], 0, 0) = Kept /\ StateAt([grid |-> board], 0, 1) = Unmarked
  /\ IsShaded(board, Pos(0, 2)) /\ IsShaded(board, Pos(1, 1)) /\ IsShaded(board, Pos(1, 2))
  /\ report.hint = Hint(0, 1, Shaded, "duplicate-resolution")

\* C18: for every group of two or more same-valued cells of one row or one
\* column, cells of every state counted: when exactly one member is Kept
\* and another is not yet Shaded, analyzeGroup proposes Shaded for the
\* first such member in scan order; when no member is Kept, exactly one is
\* Unmarked and all others are Shaded, it proposes Kept for the Unmarked
\* one; for every other group (among them the group whose one Kept member
\* is its only non-Shaded one) it yields no hint. The strategy's hint is
\* the proposal for one of the board's groups, and it finds nothing
\* exactly when no group has a proposal.
C18_GroupAnalysis ==
  report # Stale =>
    /\ \A g \in LineGroups(board) : analyzeGroup(g) = ProposedFor(g)
    /\ LET dup == findDuplicateResolutionHint(board)
       IN  IF dup = NoHint
           THEN ~HasDuplicatePattern(board)
           ELSE \E g \in LineGroups(board) : dup = ProposedFor(g)

\* The column of three 7s with its outer two Shaded was asked for a hint:
\* the middle one is to be Kept.
C18_Witness ==
  /\ report # Stale
  /\ board.size = 3
  /\ \A r \in 0..2 : CellAt(board, r, 1).value = 7
  /\ IsShaded(board, Pos(0, 1)) /\ IsShaded(board, Pos(2, 1))
  /\ CellAt(board, 1, 1).state = Unmarked
  /\ report.hint = Hint(1, 1, Kept, "duplicate-resolution")

\* A row of three 5s holds Kept, Shaded, Unmarked in this order: the
\* Shaded member is passed over and the third is to be Shaded.
C18_WitnessSkipsShaded ==
  /\ report # Stale
  /\ board.size = 3
  /\ \A c \in 0..2 : CellAt(board, 0, c).value = 5
  /\ CellAt(board, 0, 0).state = Kept /\ IsShaded(board, Pos(0, 1))
  /\ CellAt(board, 0, 2).state = Unmarked
  /\ report.hint = Hint(0, 2, Shaded, "duplicate-resolution")

\* The scanned cell of the adjacent-shaded strategy: the first Shaded cell
\* in row-major order that has a Shaded neighbour.
HasShadedNeighbor(grid, p) ==
  \E q \in AllCells(grid) :
    /\ IsShaded(grid, q)
    /\ (p.row = q.row /\ (p.col + 1 = q.col \/ q.col + 1 = p.col))
         \/ (p.col = q.col /\ (p.row + 1 = q.row \/ q.row + 1 = p.row))
ScannedCells(grid) ==
  {p \in AllCells(grid) :
     /\ IsShaded(grid, p) /\ HasShadedNeighbor(grid, p)
     /\ \A q \in AllCells(grid) :
          (IsShaded(grid, q) /\ HasShadedNeighbor(grid, q) /\ q # p) => RowMajorBefore(p, q)}

\* The place of a neighbour of p in the order up, down, left, right.
NeighborRank(p, n) ==
  IF n.col = p.col /\ n.row = p.row - 1 THEN 1
  ELSE IF n.col = p.col /\ n.row = p.row + 1 THEN 2
  ELSE IF n.row = p.row /\ n.col = p.col - 1 THEN 3
  ELSE IF n.row = p.row /\ n.col = p.col + 1 THEN 4
  ELSE 0

\* C19: the adjacent-shaded strategy finds nothing exactly when no two
\* orthogonally adjacent cells are Shaded; otherwise, for the first Shaded
\* cell in row-major order that has a Shaded neighbour, it proposes
\* Unmarked for the first Shaded one of that cell's neighbours in the
\* order up, down, left, right: the target is the neighbour, not the
\* scanned cell.
C19_AdjacentShadedScan ==
  report # Stale =>
    LET adj == findAdjacentShadedHint(board)
    IN  IF ~HasAdjacentShaded(board) THEN adj = NoHint
        ELSE /\ adj # NoHint
             /\ adj[1].suggestedState = Unmarked /\ adj[1].reason = "adjacent-shaded"
             /\ \E p \in ScannedCells(board) :
                  LET n == Pos(adj[1].row, adj[1].col)
                  IN  /\ n # p
                      /\ NeighborRank(p, n) > 0
                      /\ IsShaded(board, n)
                      /\ \A m \in AllCells(board) :
                           (IsShaded(board, m) /\ NeighborRank(p, m) > 0)
                             => NeighborRank(p, n) <= NeighborRank(p, m)

\* On a board of distinct values the cell at (0, 0) is Shaded alone, and
\* (1, 1) is Shaded with both its lower and its right neighbour: the hint
\* asked for names the lower neighbour.
C19_Witness ==
  /\ report # Stale
  /\ board.size = 3
  /\ \A p \in AllCells(board), q \in AllCells(board) :
       p # q => CellAt(board, p.row, p.col).value # CellAt(board, q.row, q.col).value
  /\ {p \in AllCells(board) : IsShaded(board, p)} = {Pos(0, 0), Pos(1, 1), Pos(1, 2), Pos(2, 1)}
  /\ report.hint = Hint(2, 1, Unmarked, "adjacent-shaded")

\* The place of a group in the scan: the groups of row 0 first, then those
\* of row 1 and so on, then the groups of column 0, column 1 and so on;
\* within a line by the place where the value first occurs.
IsRowGroup(g) == g[1].row = g[2].row
GroupRank(grid, g) ==
  IF IsRowGroup(g) THEN g[1].row * grid.size + g[1].col
  ELSE grid.size * grid.size + g[1].col * grid.size + g[1].row

MatchingGroups(grid) == {g \in LineGroups(grid) : ProposedFor(g) # NoHint}

\* C29: the duplicate-resolution hint returned is that of the first
\* matching group in scan order: every row, top to bottom, before any
\* column; within a line the groups in the order in which their values
\* first occur; so a column group's hint is returned only when no row
\* group yields one.
C29_FirstMatchingGroup ==
  report # Stale =>
    /\ MatchingGroups(board) # {} =>
         \E g \in MatchingGroups(board) :
           /\ \A h \in MatchingGroups(board) : GroupRank(board, g) <= GroupRank(board, h)
           /\ report.hint = ProposedFor(g)
           /\ report.hint = findDuplicateResolutionHint(board)
    /\ MatchingGroups(board) = {} => findDuplicateResolutionHint(board) = NoHint

\* On the 4 x 4 board whose first row is 1 2 1 2 the cells (0, 1) and
\* (0, 2) are Kept: the groups of 1 and of 2 both match, and so does no
\* other; the hint is that of the group of 1, whose value occurs first.
C29_Witness ==
  /\ report # Stale
  /\ board.size = 4
  /\ CellAt(board, 0, 1).state = Kept /\ CellAt(board, 0, 2).state = Kept
  /\ ProposedFor(RowGroup(board, 0, 2)) = Hint(0, 3, Shaded, "duplicate-resolution")
  /\ report.hint = Hint(0, 0, Shaded, "duplicate-resolution")

\* On the 2 x 2 board of one value only (1, 1) is Kept: the group of row 1
\* and the group of column 1 both match, and the hint is the row's.
C29_WitnessRowBeforeColumn ==
  /\ report # Stale
  /\ board.size = 2
  /\ \A p \in AllCells(board) : IsShaded(board, p) = FALSE
  /\ \A p \in AllCells(board) :
       (CellAt(board, p.row, p.col).state = Kept) <=> p = Pos(1, 1)
  /\ ProposedFor(ColGroup(board, 1, 1)) = Hint(0, 1, Shaded, "duplicate-resolution")
  /\ report.hint = Hint(1, 0, Shaded, "duplicate-resolution")

\* The board after the hint is applied: the target set to suggestedState.
HintApplied(grid, hint) ==
  GridSetCell(grid, hint[1].row, hint[1].col, hint[1].suggestedState)

\* C24: whenever findHint returns a hint, setting the target cell to the
\* suggested state makes no rule check fail that passed before: uniqueness,
\* no adjacent shaded cells, and connectivity each stay ok if they were ok.
C24_HintIsSafe ==
  (report # Stale /\ report.hint # NoHint) =>
    LET before == checkAllRules(board)
        after == checkAllRules(HintApplied(board, report.hint))
    IN  /\ before.rowColumnUniqueness.ok => after.rowColumnUniqueness.ok
        /\ before.noAdjacentShaded.ok => after.noAdjacentShaded.ok
        /\ before.connectivity.ok => after.connectivity.ok

\* C33: when checkNoAdjacentShaded reports a violation, findHint returns a
\* hint; and the target of a hint with reason 'adjacent-shaded' is Shaded
\* and has a Shaded orthogonal neighbour that comes before it in row-major
\* order.
C33_AdjacentViolationHinted ==
  report # Stale =>
    /\ ~checkNoAdjacentShaded(board).ok => report.hint # NoHint
    /\ (report.hint # NoHint /\ report.hint[1].reason = "adjacent-shaded") =>
         LET target == Pos(report.hint[1].row, report.hint[1].col)
         IN  /\ IsShaded(board, target)
             /\ \E q \in AllCells(board) :
                  /\ IsShaded(board, q)
                  /\ Orthogonal(q, target)
                  /\ q # target /\ RowMajorBefore(q, target)

\* On the board of nine distinct values exactly (0, 1) and (1, 1) are
\* Shaded: the rule check reports the pair and the hint names (1, 1), the
\* later one.
C33_Witness ==
  /\ report # Stale
  /\ board.size = 3
  /\ \A p \in AllCells(board), q \in AllCells(board) :
       p # q => CellAt(board, p.row, p.col).value # CellAt(board, q.row, q.col).value
  /\ {p \in AllCells(board) : IsShaded(board, p)} = {Pos(0, 1), Pos(1, 1)}
  /\ Len(checkNoAdjacentShaded(board).violations) = 1
  /\ report.hint = Hint(1, 1, Unmarked, "adjacent-shaded")

\* C34: whenever findHint returns a hint, the suggested state is not the
\* state the target cell has, so applying the hint changes exactly one
\* cell of the grid, and of that cell the state only.
C34_HintChangesOneCell ==
  (report # Stale /\ report.hint # NoHint) =>
    LET hint == report.hint[1]
        after == HintApplied(board, report.hint)
    IN  /\ inBounds(board, hint.row, hint.col)
        /\ hint.suggestedState \in CellStates
        /\ CellAt(board, hint.row, hint.col).state # hint.suggestedState
        /\ {p \in AllCells(board) : CellAt(after, p.row, p.col) # CellAt(board, p.row, p.col)}
             = {Pos(hint.row, hint.col)}
        /\ [CellAt(after, hint.row, hint.col) EXCEPT
              !.state = CellAt(board, hint.row, hint.col).state]
             = CellAt(board, hint.row, hint.col)

\* On the 2 x 2 board of one value only (0, 0) is Shaded: the hint is to
\* keep (0, 1), which is Unmarked.
C34_Witness ==
  /\ report # Stale
  /\ board.size = 2
  /\ {p \in AllCells(board) : CellAt(board, p.row, p.col).state # Unmarked} = {Pos(0, 0)}
  /\ IsShaded(board, Pos(0, 0))
  /\ CellAt(board, 0, 1).value = CellAt(board, 0, 0).value
  /\ report.hint = Hint(0, 1, Kept, "duplicate-resolution")
  /\ CellAt(HintApplied(board, report.hint), 0, 1).state = Kept

\* ---- play scene (SpecScene)

\* C23: in every step of the play scene in which isCompleted becomes true
\* or markPuzzleCompleted is called, checkAllRules of the present state of
\* the history the step leaves reports isSolved; the two happen together,
\* once, whatever clicks, hints, checks, undos, redos and resets preceded.
C23_CompletedOnlyWhenSolved ==
  [][((report'.isCompleted /\ ~report.isCompleted) \/ report'.marks > report.marks) =>
        /\ checkAllRules(history'.present.grid).isSolved
        /\ report'.isCompleted /\ ~report.isCompleted
        /\ report'.marks = report.marks + 1]_vars

\* The puzzle was completed by the click that shaded its one duplicate.
C23_Witness ==
  /\ report.isCompleted /\ report.marks = 1
  /\ Len(history.past) = 1 /\ history.future = <<>>
  /\ history.present.moves = 1
  /\ \E p \in AllCells(history.present.grid) : IsShaded(history.present.grid, p)
  /\ checkAllRules(history.present.grid).isSolved

\* ---- connectivity of a pattern (SpecPatterns)

\* C26 as stated: on every n x n shading pattern, the all-shaded one
\* included, isWhiteConnected gives the verdict of
\* checkConnectivityOfUnshaded(...).ok on the play state whose Shaded cells
\* are exactly the pattern's.
C26_SameVerdict ==
  gen.pc = "checked" => (gen.connected <=> report.ok)

\* C26, amended: the two give the same verdict on every pattern with at
\* least one non-shaded cell; on the all-shaded pattern isWhiteConnected
\* is false while checkConnectivityOfUnshaded is ok.
C26_SameVerdictUnlessAllShaded ==
  gen.pc = "checked" =>
    IF \E cell \in GenCells(Len(gen.shaded)) : ~Black(gen.shaded, cell[1], cell[2])
    THEN gen.connected <=> report.ok
    ELSE ~gen.connected /\ report.ok

\* Both were called on the 3 x 3 pattern whose middle column is shaded:
\* six non-shaded cells in two parts, and both say not connected.
C26_Witness ==
  /\ gen.pc = "checked"
  /\ Len(gen.shaded) = 3
  /\ \A cell \in GenCells(3) : Black(gen.shaded, cell[1], cell[2]) <=> cell[1] = 1
  /\ ~gen.connected
  /\ ~report.ok
  /\ Len(report.violations) = 1

\* Every value of 1..n occurs exactly once in the sequence line.
EachOnce(line, n) ==
  /\ Len(line) = n
  /\ \A v \in 1..n : Cardinality({i \in Idx(line) : line[i] = v}) = 1

\* C30: buildLatinSquare(n), with value ((x + y) mod n) + 1 at (x, y), is a
\* Latin square for every n >= 1: each row and each column holds every
\* value of 1..n exactly once; on the board that carries it with no cell
\* shaded the uniqueness check passes with no violation.
C30_LatinSquare ==
  gen.pc = "checked" =>
    LET n == board.size
        Row(r) == [c \in 1..n |-> board.cells[r][c].value]
        Column(c) == [r \in 1..n |-> board.cells[r][c].value]
    IN  /\ n = Len(gen.shaded) /\ n >= 1
        /\ \A r \in 1..n, c \in 1..n :
             board.cells[r][c].value = (((c - 1) + (r - 1)) % n) + 1
        /\ \A r \in 1..n : EachOnce(Row(r), n)
        /\ \A c \in 1..n : EachOnce(Column(c), n)
        /\ (\A r \in 1..n, c \in 1..n : board.cells[r][c].state # Shaded) =>
             checkRowColumnUniqueness(board) = [ok |-> TRUE, violations |-> <<>>]

\* The 3 x 3 square 1 2 3 / 2 3 1 / 3 1 2 is on the board with no cell
\* shaded, and the uniqueness check passes on it.
C30_Witness ==
  /\ gen.pc = "checked"
  /\ board.size = 3
  /\ \A r \in 1..3, c \in 1..3 : board.cells[r][c].state = Unmarked
  /\ [r \in 1..3 |-> [c \in 1..3 |-> board.cells[r][c].value]]
       = << <<1, 2, 3>>, <<2, 3, 1>>, <<3, 1, 2>> >>
  /\ checkRowColumnUniqueness(board).ok

\* ---- following the hints (SpecChase)

\* C31: following the hints from any play state never comes back to a
\* grid a hint was already asked on (so that, the grids being finitely
\* many, findHint returns null after finitely many hints).
C31_HintsNeverRevisit ==
  \A i \in Idx(ghost) : ghost[i] # board

CycleDistance(from, to) ==
  IF from = to THEN 0
  ELSE IF <<from, to>> \in {<<Unmarked, Shaded>>, <<Shaded, Kept>>, <<Kept, Unmarked>>}
  THEN 1 ELSE 2

\* C35: whenever findHint returns a hint on the present state of a scene
\* not yet completed, cycling the target reaches the suggested state (the
\* 'Could not apply hint safely' branch is not taken); and a step that
\* applies a hint takes 1 or 2 cycle steps, sets the target to the
\* suggested state, appends one entry to the history so that one undo
\* gives back the state before the hint, adds the number of cycle steps to
\* moves and 1 to hintsUsed.
C35_HintAppliedInOneEntry ==
  /\ [](findHint(history.present.grid) # NoHint =>
          LET hint == findHint(history.present.grid)[1]
          IN  /\ CellAt(HintCycles(history.present, hint, 0).grid, hint.row, hint.col).state
                    = hint.suggestedState
              /\ HintCycles(history.present, hint, 0).moves - history.present.moves \in {1, 2})
  /\ [][report'.hintsUsed > report.hintsUsed =>
          /\ findHint(history.present.grid) # NoHint
          /\ LET hint == findHint(history.present.grid)[1]
                 steps == CycleDistance(CellAt(history.present.grid, hint.row, hint.col).state,
                                        hint.suggestedState)
             IN  /\ steps \in {1, 2}
                 /\ history'.present.grid =
                      GridSetCell(history.present.grid, hint.row, hint.col, hint.suggestedState)
                 /\ history'.present.moves = history.present.moves + steps
                 /\ history'.present.puzzle = history.present.puzzle
          /\ history'.past = Append(history.past, history.present)
          /\ history'.future = <<>>
          /\ undo(history').present = history.present
          /\ undo(history').past = history.past
          /\ report'.hintsUsed = report.hintsUsed + 1]_vars

\* On the 2 x 2 board of one value a click shaded (0, 0) and a hint then
\* kept (0, 1), in two cycle steps: two entries in the past, three moves,
\* one hint used.
C35_Witness ==
  /\ report.hintsUsed = 1
  /\ Len(history.past) = 2
  /\ history.present.moves = 3
  /\ history.past[2].moves = 1
  /\ CellAt(history.past[2].grid, 0, 0).state = Shaded
  /\ CellAt(history.past[2].grid, 0, 1).state = Unmarked
  /\ CellAt(history.present.grid, 0, 1).state = Kept

\* C36: between two init/reset events markPuzzleCompleted is called at
\* most once, whatever clicks, hints, checks, undos and redos occur: a call
\* is made only in a scene not yet completed and completes it, and only a
\* reset takes isCompleted back; once completed, the history changes by
\* undo, redo or reset only (cell clicks and hint requests leave it as it
\* is).
C36_MarkedOncePerGame ==
  /\ [](report.marks <= 1 /\ (report.marks = 1 <=> report.isCompleted))
  /\ [][/\ report'.marks > report.marks => (report.marks = 0 /\ ~report.isCompleted)
        /\ (report.isCompleted /\ ~report'.isCompleted) =>
             (report'.marks = 0 /\ history' = createHistory(InitialValue(history.present.puzzle)))
        /\ (report.isCompleted /\ history' # history) =>
             \/ history' = undo(history)
             \/ history' = redo(history)
             \/ history' = createHistory(InitialValue(history.present.puzzle))]_vars

\* The puzzle was completed by a click and Undo was pressed after that:
\* the present is no longer solved, the solved state is next in the
\* future, and markPuzzleCompleted was called once.
C36_Witness ==
  /\ report.isCompleted /\ report.marks = 1
  /\ history.past = <<>>
  /\ Len(history.future) = 1
  /\ ~checkAllRules(history.present.grid).isSolved
  /\ checkAllRules(history.future[1].grid).isSolved

\* ---- the history as one chain (Spec)

\* C37: undo and redo keep the chain past, present, future as it is and
\* move the present by one place in it (or not at all on an empty stack);
\* a call that returns a state leaves the old past followed by the old
\* present as the new past; the history changes in no other way; canUndo
\* holds exactly on a non-empty past and canRedo on a non-empty future.
C37_ChainKept ==
  /\ [](LET h == history
        IN  /\ Chain(undo(h)) = Chain(h)
            /\ Chain(redo(h)) = Chain(h)
            /\ Len(undo(h).past) = (IF h.past = <<>> THEN 0 ELSE Len(h.past) - 1)
            /\ Len(redo(h).past) = (IF h.future = <<>> THEN Len(h.past) ELSE Len(h.past) + 1)
            /\ applyAction(h, h.present).past = h.past \o <<h.present>>
            /\ canUndo(h) <=> h.past # <<>>
            /\ canRedo(h) <=> h.future # <<>>)
  /\ [][/\ Undo => /\ Chain(history') = Chain(history)
                   /\ Len(history'.past) = Len(history.past) - 1
        /\ Redo => /\ Chain(history') = Chain(history)
                   /\ Len(history'.past) = Len(history.past) + 1
        /\ history' # history =>
             \/ /\ Chain(history') = Chain(history)
                /\ Len(history'.past) \in {Len(history.past) - 1, Len(history.past) + 1}
             \/ /\ history'.past = history.past \o <<history.present>>
                /\ history'.future = <<>>]_vars

\* Two changes were made and both undone: nothing behind the present, two
\* states ahead, and one redo moves the present without touching the chain.
C37_Witness ==
  /\ thrown = "none"
  /\ history.past = <<>> /\ Len(history.future) = 2
  /\ ~canUndo(history) /\ canRedo(history)
  /\ Len(redo(history).past) = 1 /\ Len(redo(history).future) = 1
  /\ redo(history).present # history.present

\* ---- starting and restoring a game (SpecLoad)

\* C38: a state that createInitialState or deserializeState returned has
\* grid.size equal to the size its puzzle declares, and grid.size rows of
\* grid.size cells each; with a declared size that differs from the number
\* of rows of numbers the call throws or returns such a grid all the same.
C38_ReturnedGridConsistent ==
  (board.pc # "new" /\ report.thrown = "none") =>
     LET grid == report.value.grid
     IN  /\ grid.size = report.value.puzzle.size
         /\ Len(grid.cells) = grid.size
         /\ \A r \in Idx(grid.cells) : Len(grid.cells[r]) = grid.size

====
